---- MODULE Spec2Model ----
(***************************************************************************)
(* Cardinality-constraint encoders of src/cardenc (card.hh and the family  *)
(* headers it includes).  A clause is a sequence of non-zero integers, a   *)
(* ClauseSet a sequence of clauses; every encoder is an operator that      *)
(* takes the top-id counter by value and returns the new counter together  *)
(* with the clauses it appended, in the order the code appends them.       *)
(* C++ vectors are 0-based, TLA+ sequences 1-based: v[i] of the code is    *)
(* v[i + 1] here.                                                          *)
(***************************************************************************)
EXTENDS Integers, Sequences, FiniteSets, TLC

VARIABLES op, enc, lhs, rhs, top, dest, pc,
          top0,     \* the counter as it was passed to the last call
          tree,     \* the tree handle of the last incremental-totalizer call
          heap,     \* the TotTree nodes allocated so far; a pointer is an index
          handles,  \* the tree handles the caller holds
          acc,      \* every clause emitted since the first call
          log,      \* every variable id handed out by "++top" since the first call
          calls,    \* the number of calls made on the shared counter
          trace,    \* the reads and releases the calls made so far, where recorded
          frame     \* the arguments and locals of a function run on its own

\* the part of the state only a sequence of calls on one counter uses
svars == <<tree, heap, handles, acc, log, calls, trace, frame>>

vars == <<op, enc, lhs, rhs, top, dest, pc, top0, svars>>

\* largest number of literals drawn for every family tag and every bound
MaxN == 8

(***************************************************************************)
(* card.hh: enum EncType                                                   *)
(***************************************************************************)
enc_exp == 0
enc_seqc == 1
enc_sortn == 2
enc_cardn == 3
enc_bitw == 4
enc_ladd == 5
enc_tot == 6
enc_mtot == 7
enc_kmtot == 8

EncType == enc_exp .. enc_kmtot

(***************************************************************************)
(* Generic helpers                                                         *)
(***************************************************************************)
Min(a, b) == IF a < b THEN a ELSE b

Max(a, b) == IF a > b THEN a ELSE b

\* the concatenation ss[lo] \o ... \o ss[hi] of clause sequences, by halving
RECURSIVE ConcatRange(_, _, _)
ConcatRange(ss, lo, hi) ==
    IF lo > hi THEN << >>
    ELSE IF lo = hi THEN ss[lo]
    ELSE LET mid == (lo + hi) \div 2
         IN  ConcatRange(ss, lo, mid) \o ConcatRange(ss, mid + 1, hi)

\* the concatenation of a sequence of clause sequences, in order
ConcatAll(ss) == ConcatRange(ss, 1, Len(ss))

\* ++top_id repeated cnt times: the ids top+1 .. top+cnt, in order
FreshVars(t, cnt) == [i \in 1 .. cnt |-> t + i]

\* the double arithmetic of the code, on the integers where it is used
\* (log/exp/sqrt of values below 2^31; the results agree with round-to-nearest
\* doubles for every argument the model reaches)
RECURSIVE FloorLog2(_)
FloorLog2(x) == IF x < 2 THEN 0 ELSE 1 + FloorLog2(x \div 2)

RECURSIVE Pow2(_)
Pow2(e) == IF e <= 0 THEN 1 ELSE 2 * Pow2(e - 1)

CeilLog2(x) == IF Pow2(FloorLog2(x)) = x THEN FloorLog2(x) ELSE FloorLog2(x) + 1

RECURSIVE FloorSqrtFrom(_, _)
FloorSqrtFrom(x, r) == IF (r + 1) * (r + 1) > x THEN r ELSE FloorSqrtFrom(x, r + 1)

FloorSqrt(x) == FloorSqrtFrom(x, 0)

\* (size_t)r >= sz for an int r and a vector size sz < 2^31: a negative r
\* converts to a value above every size
SizeTGeq(r, sz) == r < 0 \/ r >= sz

\* (size_t)r == sz - 1 where sz - 1 is computed in size_t (wraps at sz = 0)
SizeTEqPred(r, sz) == IF sz = 0 THEN r = -1 ELSE r = sz - 1

(***************************************************************************)
(* common.hh                                                               *)
(***************************************************************************)
common_encode_atleast1(vs) == << [i \in 1 .. Len(vs) |-> vs[i]] >>

common_encode_atleastN(vs) == [i \in 1 .. Len(vs) |-> << vs[i] >>]

common_encode_atmost0(vs) == [i \in 1 .. Len(vs) |-> << -vs[i] >>]

common_encode_atmostNm1(vs) == << [i \in 1 .. Len(vs) |-> -vs[i]] >>

(***************************************************************************)
(* pairwise.hh                                                             *)
(***************************************************************************)
\* pairwise over neighbouring positions only
pairwise_encode_atmost1_adjacent(vs) ==
    ConcatAll([i \in 1 .. Len(vs) |->
                 [d \in 1 .. (IF i < Len(vs) THEN 1 ELSE 0) |-> << -vs[i], -vs[i + d] >>]])

pairwise_encode_atmost1(vs) ==
    ConcatAll([i \in 1 .. Len(vs) |->
                 [d \in 1 .. (Len(vs) - i) |-> << -vs[i], -vs[i + d] >>]])

(***************************************************************************)
(* bitwise.hh                                                              *)
(***************************************************************************)
\* the increment without the carry into the next bit
bitwise_toggle_nocarry(togs, j) ==
    IF j < 1 THEN togs
    ELSE IF togs[j] = 0 THEN [togs EXCEPT ![j] = 1]
    ELSE [togs EXCEPT ![j] = 0]

\* the inner loop "for (int j = naux - 1; j >= 0; )": a binary increment of togs
RECURSIVE bitwise_toggle(_, _)
bitwise_toggle(togs, j) ==
    IF j < 1 THEN togs
    ELSE IF togs[j] = 0 THEN [togs EXCEPT ![j] = 1]
    ELSE bitwise_toggle([togs EXCEPT ![j] = 0], j - 1)

\* togs when the outer loop reaches literal i (0-based)
RECURSIVE bitwise_togs(_, _)
bitwise_togs(naux, i) ==
    IF i = 0 THEN [j \in 1 .. naux |-> 0]
    ELSE bitwise_toggle(bitwise_togs(naux, i - 1), naux)

bitwise_encode_atmost1(t, vs) ==
    LET naux == CeilLog2(Len(vs))
        vids == FreshVars(t, naux)
    IN  [top |-> t + naux,
         cls |-> ConcatAll([i \in 1 .. Len(vs) |->
                   LET togs == bitwise_togs(naux, i - 1)
                   IN  [j \in 1 .. naux |->
                          << -vs[i], IF togs[j] # 0 THEN vids[j] ELSE -vids[j] >>]])]

(***************************************************************************)
(* ladder.hh                                                               *)
(***************************************************************************)
\* ladder_encode_equals1 without the validity clauses
ladder_encode_equals1_loose(t, vs) ==
    LET n == Len(vs)
        p == n - 1
        auxvars == <<0>> \o FreshVars(t, p)
        aux(i) == auxvars[i + 1]
    IN  IF n = 1 THEN [top |-> t, cls |-> << << vs[1] >> >>]
        ELSE IF n = 2
        THEN [top |-> t, cls |-> << << vs[1], vs[2] >>, << -vs[1], -vs[2] >> >>]
        ELSE [top |-> t + p,
              cls |->
                 << << aux(1), vs[1] >>, << -vs[1], -aux(1) >> >>
              \o ConcatAll([x \in 1 .. (n - 2) |->
                    LET i == x + 1
                    IN  << << -aux(i - 1), aux(i), vs[i] >>,
                           << aux(i - 1), -vs[i] >>,
                           << -vs[i], -aux(i) >> >>])
              \o << << -aux(n - 1), vs[n] >>, << -vs[n], aux(n - 1) >> >>]

ladder_encode_equals1(t, vs) ==
    LET n == Len(vs)
        p == n - 1
        \* auxvars[0] = 0 is a placeholder; aux[i] below is auxvars[i] of the code
        auxvars == <<0>> \o FreshVars(t, p)
        aux(i) == auxvars[i + 1]
    IN  IF n = 1 THEN [top |-> t, cls |-> << << vs[1] >> >>]
        ELSE IF n = 2
        THEN [top |-> t, cls |-> << << vs[1], vs[2] >>, << -vs[1], -vs[2] >> >>]
        ELSE [top |-> t + p,
              cls |->
                 [i \in 1 .. (p - 1) |-> << -aux(i + 1), aux(i) >>]
              \o << << aux(1), vs[1] >>, << -vs[1], -aux(1) >> >>
              \o ConcatAll([x \in 1 .. (n - 2) |->
                    LET i == x + 1
                    IN  << << -aux(i - 1), aux(i), vs[i] >>,
                           << aux(i - 1), -vs[i] >>,
                           << -vs[i], -aux(i) >> >>])
              \o << << -aux(n - 1), vs[n] >>, << -vs[n], aux(n - 1) >> >>]

ladder_encode_atmost1(t, vs) ==
    LET extra == t + 1
        new_vars == vs \o << extra >>
    IN  ladder_encode_equals1(t + 1, new_vars)

(***************************************************************************)
(* utils.hh: mk_yvar on the pair-to-variable memo.  A memo state is a      *)
(* record: top (the counter), map (pair -> id), cls (clauses so far), nid  *)
(* (the id the last request returned), and the loop variables i and j of   *)
(* the encoder that owns the memo.                                         *)
(***************************************************************************)
\* mk_yvar without the lookup: every request allocates
mk_yvar_nomemo(st, np) ==
    [st EXCEPT !.top = st.top + 1,
               !.map = (np :> (st.top + 1)) @@ st.map,
               !.nid = st.top + 1]

mk_yvar(st, np) ==
    IF np \in DOMAIN st.map
    THEN [st EXCEPT !.nid = st.map[np]]
    ELSE [st EXCEPT !.top = st.top + 1,
                    !.map = (np :> (st.top + 1)) @@ st.map,
                    !.nid = st.top + 1]

\* clset.create_*_clause on a memo state
AddClause(st, cl) == [st EXCEPT !.cls = Append(st.cls, cl)]

(***************************************************************************)
(* seqcounter.hh: seqcounter_encode_atmostN                                *)
(***************************************************************************)
\* phase 2: for (j = 2; j <= tval; j++)
RECURSIVE seqc_phase2(_, _)
seqc_phase2(st, tval) ==
    IF st.j > tval THEN st
    ELSE LET a == mk_yvar(st, <<1, st.j>>)
             a1 == AddClause(a, << -a.nid >>)
         IN  seqc_phase2([a1 EXCEPT !.j = st.j + 1], tval)

\* phase 3.2: for (j = 2; j <= tval; j++) at position st.i
RECURSIVE seqc_phase32(_, _, _)
seqc_phase32(st, vs, tval) ==
    IF st.j > tval THEN st
    ELSE LET i == st.i
             j == st.j
             a == mk_yvar(st, <<i - 1, j - 1>>)
             b == mk_yvar(a, <<i, j>>)
             b1 == AddClause(b, << -vs[i], -a.nid, b.nid >>)
             c == mk_yvar(b1, <<i - 1, j>>)
             c1 == AddClause(c, << -c.nid, b.nid >>)
         IN  seqc_phase32([c1 EXCEPT !.j = j + 1], vs, tval)

\* phase 3: for (i = 2; i < vars.size(); i++); vars[i - 1] of the code is vs[i]
RECURSIVE seqc_phase3(_, _, _)
seqc_phase3(st, vs, tval) ==
    IF st.i >= Len(vs) THEN st
    ELSE LET i == st.i
             a == mk_yvar(st, <<i, 1>>)
             a1 == AddClause(a, << -vs[i], a.nid >>)
             b == mk_yvar(a1, <<i - 1, 1>>)
             b1 == AddClause(b, << -b.nid, a.nid >>)
             c == seqc_phase32([b1 EXCEPT !.j = 2], vs, tval)
             d == mk_yvar(c, <<i - 1, tval>>)
             d1 == AddClause(d, << -vs[i], -d.nid >>)
         IN  seqc_phase3([d1 EXCEPT !.i = i + 1], vs, tval)

seqcounter_encode_atmostN(t, vs, tval) ==
    IF SizeTGeq(tval, Len(vs)) THEN [top |-> t, cls |-> <<>>]
    ELSE IF SizeTEqPred(tval, Len(vs))
    THEN [top |-> t, cls |-> common_encode_atmostNm1(vs)]
    ELSE IF tval = 0 THEN [top |-> t, cls |-> common_encode_atmost0(vs)]
    ELSE LET st0 == [top |-> t, map |-> << >>, cls |-> << >>, nid |-> -1,
                     i |-> 0, j |-> 0]
             p1 == mk_yvar(st0, <<1, 1>>)
             p1c == AddClause(p1, << p1.nid, -vs[1] >>)
             p2 == seqc_phase2([p1c EXCEPT !.j = 2], tval)
             p3 == seqc_phase3([p2 EXCEPT !.i = 2], vs, tval)
             n == Len(vs)
             p4 == mk_yvar(p3, <<n - 1, tval>>)
             p4c == AddClause(p4, << -vs[n], -p4.nid >>)
         IN  [top |-> p4c.top, cls |-> p4c.cls]

(***************************************************************************)
(* mto.hh: totalizer                                                       *)
(***************************************************************************)
\* to_UA with the sum written one position too low
to_UA_low(outlst, alst, blst) ==
    LET m == Len(alst)
        n == Len(blst)
    IN  [j \in 1 .. n |-> << -blst[j], outlst[j] >>]
     \o [i \in 1 .. m |-> << -alst[i], outlst[i] >>]
     \o ConcatAll([i \in 1 .. m |->
                     [j \in 1 .. n |-> << -alst[i], -blst[j], outlst[i + j - 1] >>]])

to_UA(outlst, alst, blst) ==
    LET m == Len(alst)
        n == Len(blst)
    IN  [j \in 1 .. n |-> << -blst[j], outlst[j] >>]
     \o [i \in 1 .. m |-> << -alst[i], outlst[i] >>]
     \o ConcatAll([i \in 1 .. m |->
                     [j \in 1 .. n |-> << -alst[i], -blst[j], outlst[i + j] >>]])

\* one iteration of "while (!stack.empty())" of to_TO; a loop state is a
\* record: top, cls, stack (a sequence of <<ilst, olst>>, back = last)
to_TO_iter(st) ==
    LET ilst == st.stack[Len(st.stack)][1]
        olst == st.stack[Len(st.stack)][2]
        popped == SubSeq(st.stack, 1, Len(st.stack) - 1)
        n == Len(ilst)
        half == n - (n \div 2)
        fsthalf == SubSeq(ilst, 1, half)
        outfsthalf == IF half < 2 THEN fsthalf ELSE FreshVars(st.top, half)
        top1 == IF half < 2 THEN st.top ELSE st.top + half
        stack1 == IF half < 2 THEN popped
                  ELSE Append(popped, << fsthalf, outfsthalf >>)
        sndhalf == SubSeq(ilst, half + 1, n)
        outsndhalf == IF n - half < 2 THEN sndhalf ELSE FreshVars(top1, n - half)
        top2 == IF n - half < 2 THEN top1 ELSE top1 + (n - half)
        stack2 == IF n - half < 2 THEN stack1
                  ELSE Append(stack1, << sndhalf, outsndhalf >>)
    IN  [top |-> top2,
         cls |-> st.cls \o to_UA(olst, outfsthalf, outsndhalf),
         stack |-> stack2]

RECURSIVE to_TO_loop(_)
to_TO_loop(st) == IF st.stack = << >> THEN st ELSE to_TO_loop(to_TO_iter(st))

\* to_TO: returns the counter, the clauses and outvars
to_TO(t, invars) ==
    LET n == Len(invars)
        outvars == FreshVars(t, n)
        fin == to_TO_loop([top |-> t + n, cls |-> << >>,
                           stack |-> << << invars, outvars >> >>])
    IN  IF n < 2 THEN [top |-> t, cls |-> << >>, out |-> invars]
        ELSE [top |-> fin.top, cls |-> fin.cls, out |-> outvars]

\* "clset.create_unit_clause(-outvars[k])" on the result r of to_TO
to_bound(r, k) == [top |-> r.top, cls |-> Append(r.cls, << -r.out[k + 1] >>)]

to_encode_atmostN(t, vs, k) ==
    IF SizeTGeq(k, Len(vs)) THEN [top |-> t, cls |-> << >>]
    ELSE IF k = 0 THEN [top |-> t, cls |-> common_encode_atmost0(vs)]
    ELSE to_bound(to_TO(t, vs), k)

(***************************************************************************)
(* mto.hh: modulo totalizer                                                *)
(***************************************************************************)
\* mto_MUA_A: hs/rs the output upper/lower, fs/as and gs/bs the two inputs
mto_MUA_A(t, hs, rs, fs, as, gs, bs, p) ==
    LET sigma == Len(hs)
        alfa == Len(fs)
        m == Len(as)
        beta == Len(gs)
        n == Len(bs)
        c == t + 1
        phi1 ==
              [j \in 1 .. n |-> << -bs[j], rs[j], c >>]
           \o [i \in 1 .. m |-> << -as[i], rs[i], c >>]
           \o ConcatAll([i \in 1 .. m |-> [j \in 1 .. n |->
                 IF i + j < p THEN << -as[i], -bs[j], rs[i + j], c >>
                 ELSE IF i + j > p THEN << -as[i], -bs[j], rs[(i + j) % p] >>
                 ELSE << -as[i], -bs[j], c >>]])
        phi2 ==
              << IF sigma = 0 THEN << -c >> ELSE << -c, hs[1] >> >>
           \o ConcatAll([j \in 1 .. beta |->
                 << IF j <= sigma THEN << -gs[j], hs[j] >> ELSE << -gs[j] >>,
                    IF j < sigma THEN << -c, -gs[j], hs[j + 1] >>
                    ELSE << -c, -gs[j] >> >>])
           \o ConcatAll([i \in 1 .. alfa |->
                 << IF i <= sigma THEN << -fs[i], hs[i] >> ELSE << -fs[i] >>,
                    IF i < sigma THEN << -c, -fs[i], hs[i + 1] >>
                    ELSE << -c, -fs[i] >> >>])
           \o ConcatAll([i \in 1 .. alfa |-> ConcatAll([j \in 1 .. beta |->
                 << IF i + j <= sigma THEN << -fs[i], -gs[j], hs[i + j] >>
                    ELSE << -fs[i], -gs[j] >>,
                    << -c, -fs[i], -gs[j] >>
                       \o (IF i + j < sigma THEN << hs[i + j + 1] >> ELSE << >>) >>])])
    IN  [top |-> c, cls |-> phi1 \o phi2]

\* the cap computed from k - 1
mto_upper_size_short(sz, p, k) ==
    IF k >= 0 /\ ((k - 1) \div p) < (sz \div p) THEN (k - 1) \div p ELSE sz \div p

\* "un = size / p; if (k >= 0 && k / p < un) un = k / p;"
mto_upper_size(sz, p, k) ==
    IF k >= 0 /\ (k \div p) < (sz \div p) THEN k \div p ELSE sz \div p

\* one half of an iteration of mto_MTO_A's loop, acting on the state st
\* (counter, clauses, stack): a half below p is encoded by to_TO with an
\* empty upper vector, a larger one gets fresh upper and lower vectors and
\* is pushed on the stack as <<ilst, ulst, llst>>
mto_half_direct(st, r) ==
    [top |-> r.top, cls |-> st.cls \o r.cls, stack |-> st.stack,
     u |-> << >>, l |-> r.out]

\* mto_half that also pushes a half one input short of p
mto_half_below(st, hlf, p, k) ==
    IF Len(hlf) < p - 1
    THEN mto_half_direct(st, to_TO(st.top, hlf))
    ELSE LET un == mto_upper_size(Len(hlf), p, k)
             u == FreshVars(st.top, un)
             l == FreshVars(st.top + un, p - 1)
         IN  [top |-> st.top + un + (p - 1), cls |-> st.cls,
              stack |-> Append(st.stack, << hlf, u, l >>), u |-> u, l |-> l]

mto_half(st, hlf, p, k) ==
    IF Len(hlf) < p
    THEN mto_half_direct(st, to_TO(st.top, hlf))
    ELSE LET un == mto_upper_size(Len(hlf), p, k)
             u == FreshVars(st.top, un)
             l == FreshVars(st.top + un, p - 1)
         IN  [top |-> st.top + un + (p - 1), cls |-> st.cls,
              stack |-> Append(st.stack, << hlf, u, l >>), u |-> u, l |-> l]

\* the call of mto_MUA_A that ends an iteration: f and s are the states
\* after the first and the second half, back the popped stack entry
mto_MTO_A_merged(s, mua) ==
    [top |-> mua.top, cls |-> s.cls \o mua.cls, stack |-> s.stack]

mto_MTO_A_join(f, s, back, p) ==
    mto_MTO_A_merged(s, mto_MUA_A(s.top, back[2], back[3], f.u, f.l, s.u, s.l, p))

\* the second half of an iteration, after the first half left the state f
mto_MTO_A_second(f, back, sndhalf, p, k) ==
    mto_MTO_A_join(f, mto_half(f, sndhalf, p, k), back, p)

\* one iteration of "while (!stack.empty())" of mto_MTO_A on the popped
\* entry back = <<ilst, ulst, llst>>
mto_MTO_A_entry(st, back, p, k) ==
    LET ni == Len(back[1])
        half == ni - (ni \div 2)
    IN  mto_MTO_A_second(
            mto_half([top |-> st.top, cls |-> st.cls,
                      stack |-> SubSeq(st.stack, 1, Len(st.stack) - 1)],
                     SubSeq(back[1], 1, half), p, k),
            back, SubSeq(back[1], half + 1, ni), p, k)

mto_MTO_A_iter(st, p, k) == mto_MTO_A_entry(st, st.stack[Len(st.stack)], p, k)

RECURSIVE mto_MTO_A_loop(_, _, _)
mto_MTO_A_loop(st, p, k) ==
    IF st.stack = << >> THEN st ELSE mto_MTO_A_loop(mto_MTO_A_iter(st, p, k), p, k)

\* mto_MTO_A: returns the counter, the clauses, us and ls; k = -1 is the
\* default argument of the exact variant
\* fewer inputs than p: to_TO's outputs are the lower vector, no upper one
mto_MTO_A_direct(r) == [top |-> r.top, cls |-> r.cls, us |-> << >>, ls |-> r.out]

\* the result of the loop: its counter and clauses, and the vectors us and ls
mto_MTO_A_result(fin, us, ls) ==
    [top |-> fin.top, cls |-> fin.cls, us |-> us, ls |-> ls]

\* the general case of mto_MTO_A on the fresh vectors us and ls
mto_MTO_A_run(t, is, us, ls, p, k) ==
    mto_MTO_A_result(
        mto_MTO_A_loop([top |-> t + Len(us) + Len(ls), cls |-> << >>,
                        stack |-> << << is, us, ls >> >>], p, k),
        us, ls)

mto_MTO_A(t, is, p, k) ==
    IF Len(is) < p
    THEN mto_MTO_A_direct(to_TO(t, is))
    ELSE LET un == mto_upper_size(Len(is), p, k)
         IN  mto_MTO_A_run(t, is, FreshVars(t, un), FreshVars(t + un, p - 1), p, k)

\* mto_comparator whose lower loop starts one position late
mto_comparator_late(upper, lower, p, k) ==
    LET ro == k \div p
        nu == k % p
    IN  [x \in 1 .. (Len(upper) - ro) |-> << -upper[ro + x] >>]
     \o ConcatAll([x \in 1 .. (p - 2 - nu) |->
           LET i == nu + 1 + x
           IN  IF ro > 0
               THEN IF ro - 1 < Len(upper)
                    THEN << << -upper[ro], -lower[i] >> >>
                    ELSE << >>
               ELSE << << -lower[i] >> >>])

mto_comparator(upper, lower, p, k) ==
    LET ro == k \div p
        nu == k % p
    IN  [x \in 1 .. (Len(upper) - ro) |-> << -upper[ro + x] >>]
     \o ConcatAll([x \in 1 .. (p - 1 - nu) |->
           LET i == nu + x
           IN  IF ro > 0
               THEN IF ro - 1 < Len(upper)
                    THEN << << -upper[ro], -lower[i] >> >>
                    ELSE << >>
               ELSE << << -lower[i] >> >>])

\* mto_comparator on the vectors of the result r of mto_MTO_A
mto_compared(r, p, k) ==
    [top |-> r.top, cls |-> r.cls \o mto_comparator(r.us, r.ls, p, k)]

\* the encoder once p is chosen; ka is the k passed to mto_MTO_A
mto_encode_with(t, vs, p, k, ka) == mto_compared(mto_MTO_A(t, vs, p, ka), p, k)

mto_encode_atmostN(t, vs, k) ==
    IF SizeTGeq(k, Len(vs)) THEN [top |-> t, cls |-> << >>]
    ELSE IF k = 0 THEN [top |-> t, cls |-> common_encode_atmost0(vs)]
    ELSE mto_encode_with(t, vs, Max(2, FloorSqrt(Len(vs))), k, -1)

kmto_encode_atmostN(t, vs, k) ==
    IF SizeTGeq(k, Len(vs)) THEN [top |-> t, cls |-> << >>]
    ELSE IF k = 0 THEN [top |-> t, cls |-> common_encode_atmost0(vs)]
    ELSE mto_encode_with(t, vs, Max(2, FloorSqrt(k)), k, k)

(***************************************************************************)
(* utils.hh: vector helpers of the networks                                *)
(***************************************************************************)
mk_half_vect(iv, offset) == [k \in 1 .. (Len(iv) \div 2) |-> iv[offset + k]]

mk_ksize_vect(iv, sz, offset) == [k \in 1 .. sz |-> iv[offset + k]]

\* ov[k] = iv[k * 2]: the 1st, 3rd, ... entries
mk_odd_vect(iv) == [k \in 1 .. (Len(iv) \div 2) |-> iv[2 * k - 1]]

\* ov[k] = iv[k * 2 + 1]: the 2nd, 4th, ... entries
mk_even_vect(iv) == [k \in 1 .. (Len(iv) \div 2) |-> iv[2 * k]]

(***************************************************************************)
(* sortcard.hh: sorting networks.  Each operator returns the counter, the  *)
(* clauses and the output vector cv.                                       *)
(***************************************************************************)
NOPTCLS == TRUE

\* the merge of two vectors of size 1, shared by both networks
merge_base(t, av, bv, zvar) ==
    IF NOPTCLS \/ (av[1] # zvar /\ bv[1] # zvar)
    THEN LET cv == FreshVars(t, 2)
         IN  [top |-> t + 2,
              cls |-> << << -av[1], cv[1] >>, << -bv[1], cv[1] >>,
                         << -av[1], -bv[1], cv[2] >> >>,
              cv |-> cv]
    ELSE IF av[1] = zvar
    THEN [top |-> t, cls |-> << >>, cv |-> << bv[1], av[1] >>]
    ELSE [top |-> t, cls |-> << >>, cv |-> << av[1], bv[1] >>]

\* whether the merge of av and bv emits comparators
merge_emits(av, bv, zvar) ==
    NOPTCLS \/ ((av[1] # zvar \/ av[Len(av)] # zvar)
                /\ (bv[1] # zvar \/ bv[Len(av)] # zvar))

\* the comparator chain without the clause for the higher output
merge_chain_half(dv, ev, cv, cnt) ==
    ConcatAll([x \in 1 .. cnt |->
       << << -dv[x + 1], cv[2 * x] >>,
          << -ev[x], cv[2 * x] >> >>])

\* the comparator chain "for (i = 0; i < cnt; ++i)" over dv, ev and cv
merge_chain(dv, ev, cv, cnt) ==
    ConcatAll([x \in 1 .. cnt |->
       << << -dv[x + 1], cv[2 * x] >>,
          << -ev[x], cv[2 * x] >>,
          << -dv[x + 1], -ev[x], cv[2 * x + 1] >> >>])

\* the zero-padding shortcut: copy_vvect twice
merge_copy(av, bv, zvar) ==
    IF av[1] = zvar /\ av[Len(av)] = zvar THEN bv \o av ELSE av \o bv

RECURSIVE sortn_half_merge_recur(_, _, _, _)
sortn_half_merge_recur(t, av, bv, zvar) ==
    IF Len(av) = 1 THEN merge_base(t, av, bv, zvar)
    ELSE IF merge_emits(av, bv, zvar)
    THEN LET d == sortn_half_merge_recur(t, mk_odd_vect(av), mk_odd_vect(bv), zvar)
             e == sortn_half_merge_recur(d.top, mk_even_vect(av), mk_even_vect(bv), zvar)
             cnt == 2 * Len(av) - 2
             cv == << d.cv[1] >> \o FreshVars(e.top, cnt) \o << e.cv[Len(e.cv)] >>
         IN  [top |-> e.top + cnt,
              cls |-> d.cls \o e.cls \o merge_chain(d.cv, e.cv, cv, Len(av) - 1),
              cv |-> cv]
    ELSE [top |-> t, cls |-> << >>, cv |-> merge_copy(av, bv, zvar)]

RECURSIVE sortn_half_sorter_recur(_, _, _)
sortn_half_sorter_recur(t, av, zvar) ==
    IF Len(av) = 2
    THEN sortn_half_merge_recur(t, << av[1] >>, << av[2] >>, zvar)
    ELSE LET d1 == sortn_half_sorter_recur(t, mk_half_vect(av, 0), zvar)
             d2 == sortn_half_sorter_recur(d1.top, mk_half_vect(av, Len(av) \div 2), zvar)
             m == sortn_half_merge_recur(d2.top, d1.cv, d2.cv, zvar)
         IN  [top |-> m.top, cls |-> d1.cls \o d2.cls \o m.cls, cv |-> m.cv]

\* the clauses around the network s: "create_unit_clause(-zvar)" before it
\* when the input was padded, "create_unit_clause(-cv[rhs])" after it
network_bound(s, pad, zvar, r) ==
    [top |-> s.top,
     cls |-> (IF pad THEN << << -zvar >> >> ELSE << >>)
             \o s.cls \o << << -s.cv[r + 1] >> >>]

\* the padding done with literal 0 whatever zvar is
PadTo_zero(vs, nn, zvar) == vs \o [i \in 1 .. (nn - Len(vs)) |-> 0]

\* vvect.resize(nn, zvar)
PadTo(vs, nn, zvar) == vs \o [i \in 1 .. (nn - Len(vs)) |-> zvar]

sortn_encode_atmostN(t, vs, r) ==
    LET nvars == Len(vs)
        exponent0 == FloorLog2(nvars)
        exponent == IF nvars = Pow2(exponent0) THEN exponent0 ELSE exponent0 + 1
        nnvars == Pow2(exponent)
        pad == nnvars # nvars
        zvar == IF pad THEN t + 1 ELSE 0
        top1 == IF pad THEN t + 1 ELSE t
        vvect == IF pad THEN PadTo(vs, nnvars, zvar) ELSE vs
    IN  IF r >= nvars THEN [top |-> t, cls |-> << >>]
        ELSE IF r = nvars - 1 THEN [top |-> t, cls |-> common_encode_atmostNm1(vs)]
        ELSE IF r = 0 THEN [top |-> t, cls |-> common_encode_atmost0(vs)]
        ELSE network_bound(sortn_half_sorter_recur(top1, vvect, zvar), pad, zvar, r)

(***************************************************************************)
(* sortcard.hh: cardinality networks                                       *)
(***************************************************************************)
RECURSIVE cardn_simple_merge_recur(_, _, _, _)
cardn_simple_merge_recur(t, av, bv, zvar) ==
    IF Len(av) = 1 THEN merge_base(t, av, bv, zvar)
    ELSE IF merge_emits(av, bv, zvar)
    THEN LET d == cardn_simple_merge_recur(t, mk_odd_vect(av), mk_odd_vect(bv), zvar)
             e == cardn_simple_merge_recur(d.top, mk_even_vect(av), mk_even_vect(bv), zvar)
             cv == << d.cv[1] >> \o FreshVars(e.top, Len(av))
         IN  [top |-> e.top + Len(av),
              cls |-> d.cls \o e.cls \o merge_chain(d.cv, e.cv, cv, Len(av) \div 2),
              cv |-> cv]
    ELSE [top |-> t, cls |-> << >>,
          cv |-> SubSeq(merge_copy(av, bv, zvar), 1, Len(av) + 1)]

\* cardn_recur that leaves a block of nkval inputs unsorted
RECURSIVE cardn_recur_unsorted(_, _, _, _)
cardn_recur_unsorted(t, av, zvar, nkval) ==
    IF Len(av) = nkval
    THEN [top |-> t, cls |-> << >>, cv |-> av]
    ELSE LET d1 == cardn_recur_unsorted(t, mk_ksize_vect(av, nkval, 0), zvar, nkval)
             d2 == cardn_recur_unsorted(d1.top, mk_ksize_vect(av, Len(av) - nkval, nkval),
                                        zvar, nkval)
             m == cardn_simple_merge_recur(d2.top, d1.cv, d2.cv, zvar)
         IN  [top |-> m.top, cls |-> d1.cls \o d2.cls \o m.cls,
              cv |-> SubSeq(m.cv, 1, Len(m.cv) - 1)]

RECURSIVE cardn_recur(_, _, _, _)
cardn_recur(t, av, zvar, nkval) ==
    IF Len(av) = nkval
    THEN IF Len(av) = 1 THEN [top |-> t, cls |-> << >>, cv |-> av]
         ELSE sortn_half_sorter_recur(t, av, zvar)
    ELSE LET d1 == cardn_recur(t, mk_ksize_vect(av, nkval, 0), zvar, nkval)
             d2 == cardn_recur(d1.top, mk_ksize_vect(av, Len(av) - nkval, nkval),
                               zvar, nkval)
             m == cardn_simple_merge_recur(d2.top, d1.cv, d2.cv, zvar)
         IN  [top |-> m.top, cls |-> d1.cls \o d2.cls \o m.cls,
              cv |-> SubSeq(m.cv, 1, Len(m.cv) - 1)]

cardn_encode_atmostN(t, vs, r) ==
    LET nvars == Len(vs)
        exponent == FloorLog2(r) + 1
        nkval == Pow2(exponent)
        mval == nvars \div nkval
        pad == nvars > mval * nkval
        nnvars == IF pad THEN (mval + 1) * nkval ELSE nvars
        zvar == IF pad THEN t + 1 ELSE 0
        top1 == IF pad THEN t + 1 ELSE t
        vvect == IF pad THEN PadTo(vs, nnvars, zvar) ELSE vs
    IN  IF r >= nvars THEN [top |-> t, cls |-> << >>]
        ELSE IF r = nvars - 1 THEN [top |-> t, cls |-> common_encode_atmostNm1(vs)]
        ELSE IF r = 0 THEN [top |-> t, cls |-> common_encode_atmost0(vs)]
        ELSE network_bound(cardn_recur(top1, vvect, zvar, nkval), pad, zvar, r)

(***************************************************************************)
(* card.hh: the encoding selector                                          *)
(***************************************************************************)
\* _encode_atmost that runs the at-most-1 families on every bound above 0
encode_atmost_unguarded(vs, r, t, e) ==
    IF r < 1 \/ r >= Len(vs) THEN [top |-> t, cls |-> << >>]
    ELSE IF e = enc_bitw THEN bitwise_encode_atmost1(t, vs)
    ELSE IF e = enc_ladd THEN ladder_encode_atmost1(t, vs)
    ELSE [top |-> t, cls |-> pairwise_encode_atmost1(vs)]

encode_atmost(vs, r, t, e) ==
    IF SizeTGeq(r, Len(vs)) THEN [top |-> t, cls |-> << >>]
    ELSE IF SizeTEqPred(r, Len(vs)) THEN [top |-> t, cls |-> common_encode_atmostNm1(vs)]
    ELSE IF r = 0 THEN [top |-> t, cls |-> common_encode_atmost0(vs)]
    ELSE IF e = enc_cardn THEN cardn_encode_atmostN(t, vs, r)
    ELSE IF e = enc_sortn THEN sortn_encode_atmostN(t, vs, r)
    ELSE IF e = enc_kmtot THEN kmto_encode_atmostN(t, vs, r)
    ELSE IF e = enc_mtot THEN mto_encode_atmostN(t, vs, r)
    ELSE IF e = enc_tot THEN to_encode_atmostN(t, vs, r)
    ELSE IF e = enc_seqc THEN seqcounter_encode_atmostN(t, vs, r)
    ELSE IF r = 1
    THEN IF e = enc_bitw THEN bitwise_encode_atmost1(t, vs)
         ELSE IF e = enc_exp THEN [top |-> t, cls |-> pairwise_encode_atmost1(vs)]
         ELSE IF e = enc_ladd THEN ladder_encode_atmost1(t, vs)
         ELSE [top |-> t, cls |-> << >>]
    ELSE [top |-> t, cls |-> << >>]

\* the negation that starts at the second literal
Negated_tail(vs) == [i \in 1 .. Len(vs) |-> IF i = 1 THEN vs[i] ELSE -vs[i]]

\* "for (i = 0; i < lhs.size(); ++i) lhs[i] = -lhs[i];"
Negated(vs) == [i \in 1 .. Len(vs) |-> -vs[i]]

\* the result a of the at-most call, with the vector nvs the caller is left with
encode_atleast_done(a, nvs) == [top |-> a.top, cls |-> a.cls, lhs |-> nvs]

\* _encode_atleast that recurses on the literals as given
encode_atleast_plain(vs, r, t, e) ==
    IF r <= 0 THEN [top |-> t, cls |-> << >>, lhs |-> vs]
    ELSE IF r = 1 THEN [top |-> t, cls |-> common_encode_atleast1(vs), lhs |-> vs]
    ELSE IF r = Len(vs) THEN [top |-> t, cls |-> common_encode_atleastN(vs), lhs |-> vs]
    ELSE encode_atleast_done(encode_atmost(vs, Len(vs) - r, t, e), vs)

\* returns the counter, the clauses and the caller's vector as the call leaves it
encode_atleast(vs, r, t, e) ==
    IF r <= 0 THEN [top |-> t, cls |-> << >>, lhs |-> vs]
    ELSE IF r = 1 THEN [top |-> t, cls |-> common_encode_atleast1(vs), lhs |-> vs]
    ELSE IF r = Len(vs) THEN [top |-> t, cls |-> common_encode_atleastN(vs), lhs |-> vs]
    ELSE encode_atleast_done(encode_atmost(Negated(vs), Len(vs) - r, t, e), Negated(vs))

(***************************************************************************)
(* itot.hh: the incremental totalizer.  A TotTree pointer is an index into *)
(* heap, 0 the null pointer; a node is a record vars, nof_input, left,     *)
(* right.  An operation takes and returns a record: top (the counter), cls *)
(* (the clauses of this call's ClauseSet), heap, log (the ids "++top" has  *)
(* handed out), queue (nqueue of itot_new) and root (the tree returned).   *)
(***************************************************************************)
\* "std::min(rhs + 1, nof_input)" in unsigned arithmetic: a negative int
\* passed as unsigned rhs is at least 2^31, and rhs + 1 wraps to 0 at -1
itot_kmin(r, nof) ==
    IF r = -1 THEN 0 ELSE IF r < -1 THEN nof ELSE Min(r + 1, nof)

\* the state a call starts from: this call's ClauseSet is empty
itot_enter(t, hp, lg) ==
    [top |-> t, cls |-> << >>, heap |-> hp, log |-> lg, queue |-> << >>, root |-> 0]

\* itot_new_ua without the sums that reach the last output
itot_new_ua_short(ov, r, av, bv) ==
    [j \in 1 .. Min(r, Len(bv)) |-> << -bv[j], ov[j] >>]
     \o [i \in 1 .. Min(r, Len(av)) |-> << -av[i], ov[i] >>]
     \o ConcatAll([i \in 1 .. Min(r, Len(av)) |->
           [j \in 1 .. Min(Max(r - i - 1, 0), Len(bv)) |->
              << -av[i], -bv[j], ov[i + j] >>]])

\* itot_new_ua without the clauses that carry the second vector alone
itot_new_ua_first_only(ov, r, av, bv) ==
    [i \in 1 .. Min(r, Len(av)) |-> << -av[i], ov[i] >>]
     \o ConcatAll([i \in 1 .. Min(r, Len(av)) |->
           [j \in 1 .. Min(r - i, Len(bv)) |-> << -av[i], -bv[j], ov[i + j] >>]])

itot_new_ua(ov, r, av, bv) ==
    [j \in 1 .. Min(r, Len(bv)) |-> << -bv[j], ov[j] >>]
     \o [i \in 1 .. Min(r, Len(av)) |-> << -av[i], ov[i] >>]
     \o ConcatAll([i \in 1 .. Min(r, Len(av)) |->
           [j \in 1 .. Min(r - i, Len(bv)) |-> << -av[i], -bv[j], ov[i + j] >>]])

\* itot_node with the counter left where it was
itot_node_stale_top(st, l, r, kmin) ==
    [st EXCEPT
       !.log = st.log \o FreshVars(st.top, kmin),
       !.heap = Append(st.heap,
                       [vars |-> FreshVars(st.top, kmin),
                        nof_input |-> st.heap[l].nof_input + st.heap[r].nof_input,
                        left |-> l, right |-> r]),
       !.cls = st.cls \o itot_new_ua(FreshVars(st.top, kmin), kmin,
                                     st.heap[l].vars, st.heap[r].vars),
       !.root = Len(st.heap) + 1]

\* a new node over l and r with kmin fresh count variables, and its clauses
itot_node(st, l, r, kmin) ==
    [st EXCEPT
       !.top = st.top + kmin,
       !.log = st.log \o FreshVars(st.top, kmin),
       !.heap = Append(st.heap,
                       [vars |-> FreshVars(st.top, kmin),
                        nof_input |-> st.heap[l].nof_input + st.heap[r].nof_input,
                        left |-> l, right |-> r]),
       !.cls = st.cls \o itot_new_ua(FreshVars(st.top, kmin), kmin,
                                     st.heap[l].vars, st.heap[r].vars),
       !.root = Len(st.heap) + 1]

\* the leaves of itot_new: one node per literal, queued in input order
itot_leaves(st, vs) ==
    [st EXCEPT
       !.heap = st.heap \o [i \in 1 .. Len(vs) |->
                   [vars |-> << vs[i] >>, nof_input |-> 1, left |-> 0, right |-> 0]],
       !.queue = [i \in 1 .. Len(vs) |-> Len(st.heap) + i],
       !.root = Len(st.heap) + 1]

\* the new node put at the front of the queue
itot_new_push_front(st) ==
    [st EXCEPT !.queue = << st.root >> \o SubSeq(st.queue, 3, Len(st.queue))]

\* the node of one iteration of itot_new's loop joins the queue
itot_new_push(st) ==
    [st EXCEPT !.queue = Append(SubSeq(st.queue, 3, Len(st.queue)), st.root)]

\* "while (nqueue.size() > 1)": the two front nodes get a parent
RECURSIVE itot_new_loop(_, _)
itot_new_loop(st, r) ==
    IF Len(st.queue) <= 1 THEN st
    ELSE itot_new_loop(
            itot_new_push(
               itot_node(st, st.queue[1], st.queue[2],
                         itot_kmin(r, st.heap[st.queue[1]].nof_input
                                        + st.heap[st.queue[2]].nof_input))),
            r)

\* itot_new on at least one literal: root is nqueue.front()
itot_new(st, vs, r) == itot_new_loop(itot_leaves(st, vs), r)

\* itot_increase_ua handing out "top++": the first new id is the counter as
\* it was
itot_increase_ua_postincrement(st, id, r) ==
    LET last == Len(st.heap[id].vars)
        ov == st.heap[id].vars \o FreshVars(st.top - 1, r - last)
        av == st.heap[st.heap[id].left].vars
        bv == st.heap[st.heap[id].right].vars
    IN  [st EXCEPT
           !.top = st.top + Max(r - last, 0),
           !.log = st.log \o FreshVars(st.top - 1, r - last),
           !.heap = [st.heap EXCEPT ![id].vars = ov],
           !.cls = st.cls
              \o [x \in 1 .. Max(Min(r, Len(bv)) - last, 0) |-> << -bv[last + x], ov[last + x] >>]
              \o [x \in 1 .. Max(Min(r, Len(av)) - last, 0) |-> << -av[last + x], ov[last + x] >>]
              \o ConcatAll([i \in 1 .. Min(r, Len(av)) |->
                    [x \in 1 .. Max(Min(r - i, Len(bv)) - Max(last - i + 1, 1) + 1, 0) |->
                       << -av[i], -bv[Max(last - i + 1, 1) + x - 1],
                          ov[i + Max(last - i + 1, 1) + x - 1] >>]])]

\* itot_increase_ua whose sums start one output too low: the sums that
\* reach the last old output are emitted again
itot_increase_ua_overlap(st, id, r) ==
    LET last == Len(st.heap[id].vars)
        ov == st.heap[id].vars \o FreshVars(st.top, r - last)
        av == st.heap[st.heap[id].left].vars
        bv == st.heap[st.heap[id].right].vars
    IN  [st EXCEPT
           !.top = st.top + Max(r - last, 0),
           !.log = st.log \o FreshVars(st.top, r - last),
           !.heap = [st.heap EXCEPT ![id].vars = ov],
           !.cls = st.cls
              \o [x \in 1 .. Max(Min(r, Len(bv)) - last, 0) |-> << -bv[last + x], ov[last + x] >>]
              \o [x \in 1 .. Max(Min(r, Len(av)) - last, 0) |-> << -av[last + x], ov[last + x] >>]
              \o ConcatAll([i \in 1 .. Min(r, Len(av)) |->
                    [x \in 1 .. Max(Min(r - i, Len(bv)) - Max(last - i, 1) + 1, 0) |->
                       << -av[i], -bv[Max(last - i, 1) + x - 1],
                          ov[i + Max(last - i, 1) + x - 1] >>]])]

\* itot_increase: nothing when the vector is long enough, else the children
\* first, then the node
\* itot_increase_ua on node id: its vector grows to r entries
itot_increase_ua(st, id, r) ==
    LET last == Len(st.heap[id].vars)
        ov == st.heap[id].vars \o FreshVars(st.top, r - last)
        av == st.heap[st.heap[id].left].vars
        bv == st.heap[st.heap[id].right].vars
    IN  [st EXCEPT
           !.top = st.top + Max(r - last, 0),
           !.log = st.log \o FreshVars(st.top, r - last),
           !.heap = [st.heap EXCEPT ![id].vars = ov],
           !.cls = st.cls
              \o [x \in 1 .. Max(Min(r, Len(bv)) - last, 0) |-> << -bv[last + x], ov[last + x] >>]
              \o [x \in 1 .. Max(Min(r, Len(av)) - last, 0) |-> << -av[last + x], ov[last + x] >>]
              \o ConcatAll([i \in 1 .. Min(r, Len(av)) |->
                    [x \in 1 .. Max(Min(r - i, Len(bv)) - Max(last - i + 1, 1) + 1, 0) |->
                       << -av[i], -bv[Max(last - i + 1, 1) + x - 1],
                          ov[i + Max(last - i + 1, 1) + x - 1] >>]])]

\* itot_increase: nothing when the vector is long enough, else the children
\* first, then the node
RECURSIVE itot_increase(_, _, _)
\* itot_increase that resizes the vector to the length asked for even when
\* it is already longer
itot_increase_resize(st, id, r) ==
    IF itot_kmin(r, st.heap[id].nof_input) <= Len(st.heap[id].vars)
    THEN [st EXCEPT !.heap[id].vars =
             SubSeq(@, 1, itot_kmin(r, st.heap[id].nof_input))]
    ELSE itot_increase_ua(
            itot_increase(itot_increase(st, st.heap[id].left, r),
                          st.heap[id].right, r),
            id, itot_kmin(r, st.heap[id].nof_input))

\* itot_increase that grows the node and leaves its children as they are
itot_increase_node_only(st, id, r) ==
    IF itot_kmin(r, st.heap[id].nof_input) <= Len(st.heap[id].vars) THEN st
    ELSE itot_increase_ua(st, id, itot_kmin(r, st.heap[id].nof_input))

itot_increase(st, id, r) ==
    IF itot_kmin(r, st.heap[id].nof_input) <= Len(st.heap[id].vars) THEN st
    ELSE itot_increase_ua(
            itot_increase(itot_increase(st, st.heap[id].left, r),
                          st.heap[id].right, r),
            id, itot_kmin(r, st.heap[id].nof_input))

\* itot_merge: both trees are increased, then joined under a new root
itot_merge(st, ta, tb, r) ==
    itot_node(itot_increase(itot_increase(st, ta, r), tb, r), ta, tb,
              itot_kmin(r, st.heap[ta].nof_input + st.heap[tb].nof_input))

\* itot_destroy releasing the node before its sub-trees
RECURSIVE itot_destroy_node_first(_, _)
itot_destroy_node_first(hp, id) ==
    << << "delete", id >>, << "read", id >> >>
     \o (IF hp[id].left # 0 THEN itot_destroy_node_first(hp, hp[id].left) ELSE << >>)
     \o << << "read", id >> >>
     \o (IF hp[id].right # 0 THEN itot_destroy_node_first(hp, hp[id].right) ELSE << >>)

\* itot_destroy as the sequence of its accesses: tree->left is read, the left
\* sub-tree destroyed, tree->right read, the right sub-tree destroyed,
\* tree->vars cleared and the node deleted
RECURSIVE itot_destroy(_, _)
itot_destroy(hp, id) ==
    << << "read", id >> >>
     \o (IF hp[id].left # 0 THEN itot_destroy(hp, hp[id].left) ELSE << >>)
     \o << << "read", id >> >>
     \o (IF hp[id].right # 0 THEN itot_destroy(hp, hp[id].right) ELSE << >>)
     \o << << "read", id >>, << "delete", id >> >>

\* the merge of itot_extend, on the state stb that itot_new left
itot_extend_merge(stb, ta, r) == itot_merge(stb, ta, stb.root, r)

itot_extend(st, newin, ta, r) == itot_extend_merge(itot_new(st, newin, r), ta, r)

(***************************************************************************)
(* The state machine: one call of an entry point on a caller's literal     *)
(* vector, bound, counter and (empty) ClauseSet.                           *)
(***************************************************************************)
Ops == {"atmost", "atleast", "ladder_equals1"}

\* the caller's literals: the distinct variables 1 .. n, positive
InputLits(n) == [i \in 1 .. n |-> i]

\* larger instances of the two modulo totalizers, where the group size
\* exceeds 2 (p = 3 needs n >= 9, resp. k >= 9): <<tag, n, bound>>
DeepCases ==
    { <<enc_mtot, 9, 4>>, <<enc_mtot, 10, 5>>, <<enc_mtot, 10, 6>>, <<enc_mtot, 12, 7>>,
      <<enc_kmtot, 11, 9>>, <<enc_kmtot, 12, 9>>, <<enc_kmtot, 12, 10>> }

\* no tree, no earlier call
NoSession ==
    /\ tree = 0
    /\ heap = << >>
    /\ handles = {}
    /\ acc = << >>
    /\ log = << >>
    /\ calls = 0
    /\ trace = << >>
    /\ frame = << >>

Init ==
    /\ pc = "ready"
    /\ dest = << >>
    /\ NoSession
    /\ \/ /\ op \in {"atmost", "atleast"}
          /\ enc \in EncType
          /\ \E n \in 0 .. MaxN :
                /\ lhs = InputLits(n)
                /\ top = n
                /\ rhs \in -1 .. (n + 1)
       \/ /\ op = "atmost"
          /\ \E c \in DeepCases :
                /\ enc = c[1]
                /\ lhs = InputLits(c[2])
                /\ top = c[2]
                /\ rhs = c[3]
       \/ /\ op = "ladder_equals1"
          /\ enc = enc_ladd
          /\ rhs = 1
          /\ \E n \in 1 .. (MaxN + 1) :
                /\ lhs = InputLits(n)
                /\ top = n
    /\ top0 = top

\* the encoder returned r: its clauses are in dest, top is its counter
Returned(r) ==
    /\ dest' = dest \o r.cls
    /\ top' = r.top

\* _encode_atleast returned r: the caller's vector is as the call left it
ReturnedAtLeast(r) ==
    /\ Returned(r)
    /\ lhs' = r.lhs

Call_encode_atmost ==
    /\ pc = "ready"
    /\ op = "atmost"
    /\ Returned(encode_atmost(lhs, rhs, top, enc))
    /\ pc' = "done"
    /\ UNCHANGED <<op, enc, lhs, rhs, top0, svars>>

Call_encode_atleast ==
    /\ pc = "ready"
    /\ op = "atleast"
    /\ ReturnedAtLeast(encode_atleast(lhs, rhs, top, enc))
    /\ pc' = "done"
    /\ UNCHANGED <<op, enc, rhs, top0, svars>>

Call_ladder_encode_equals1 ==
    /\ pc = "ready"
    /\ op = "ladder_equals1"
    /\ Returned(ladder_encode_equals1(top, lhs))
    /\ pc' = "done"
    /\ UNCHANGED <<op, enc, lhs, rhs, top0, svars>>

Next ==
    \/ Call_encode_atmost
    \/ Call_encode_atleast
    \/ Call_ladder_encode_equals1

Spec == Init /\ [][Next]_vars

(***************************************************************************)
(* The state machine of a session: a caller with the input variables       *)
(* 1 .. NLits makes up to MaxCalls calls of the incremental totalizer and  *)
(* of _encode_atmost, passing each call the counter the last one returned. *)
(* Every call has a ClauseSet of its own (dest); acc collects them.        *)
(***************************************************************************)
NLits == 4

MaxCalls == 3

\* the bounds a caller passes to the incremental totalizer; -1 is the int
\* that becomes the largest unsigned
ItotBounds == -1 .. NLits

SessionStart ==
    /\ pc = "session"
    /\ op = "none"
    /\ enc = enc_exp
    /\ lhs = << >>
    /\ rhs = 0
    /\ top = NLits
    /\ dest = << >>
    /\ NoSession
    /\ top0 = top

\* the input literals no tree has been built over yet: a leaf is a node
\* without children, one per literal
NofLeaves == Cardinality({i \in DOMAIN heap : heap[i].left = 0})

NextLits(n) == [i \in 1 .. n |-> NofLeaves + i]

\* a handle is a root while no node has it as a child
IsRoot(h) == \A i \in DOMAIN heap : heap[i].left # h /\ heap[i].right # h

\* the variables of the clauses cs other than the caller's, ascending
RECURSIVE Ascending(_)
Ascending(S) ==
    IF S = {} THEN << >>
    ELSE << CHOOSE x \in S : \A y \in S : x <= y >>
            \o Ascending(S \ {CHOOSE x \in S : \A y \in S : x <= y})

VarsOf(cs) ==
    UNION {{IF cs[i][j] < 0 THEN -cs[i][j] ELSE cs[i][j] : j \in 1 .. Len(cs[i])}
              : i \in 1 .. Len(cs)}

AuxVars(cs) == Ascending(VarsOf(cs) \ (1 .. NLits))

\* a call in a session begins: op, arguments, the counter passed
Entered(name, vs, r, t) ==
    /\ pc = "session"
    /\ calls < MaxCalls
    /\ calls' = calls + 1
    /\ op' = name
    /\ lhs' = vs
    /\ rhs' = r
    /\ tree' = t
    /\ top0' = top
    /\ pc' = pc

\* an incremental-totalizer call returned st
ItotReturned(st) ==
    /\ dest' = st.cls
    /\ acc' = acc \o st.cls
    /\ top' = st.top
    /\ heap' = st.heap
    /\ log' = st.log
    /\ UNCHANGED <<trace, frame>>

\* the call returned st and the handle of the new root
TreeReturned(st) ==
    /\ ItotReturned(st)
    /\ handles' = handles \cup {st.root}

\* py_itot_new: a tree over the next literals, at least one
py_itot_new ==
    \E n \in 1 .. (NLits - NofLeaves), r \in ItotBounds :
       /\ Entered("itot_new", NextLits(n), r, 0)
       /\ TreeReturned(itot_new(itot_enter(top, heap, log), NextLits(n), r))
       /\ UNCHANGED enc

\* py_itot_inc: on any handle the caller holds
py_itot_inc ==
    \E t \in handles, r \in ItotBounds :
       /\ Entered("itot_increase", << >>, r, t)
       /\ ItotReturned(itot_increase(itot_enter(top, heap, log), t, r))
       /\ UNCHANGED <<enc, handles>>

\* py_itot_ext: new literals join the tree of a root handle
py_itot_ext ==
    \E t \in handles, n \in 1 .. (NLits - NofLeaves), r \in ItotBounds :
       /\ IsRoot(t)
       /\ Entered("itot_extend", NextLits(n), r, t)
       /\ TreeReturned(itot_extend(itot_enter(top, heap, log), NextLits(n), t, r))
       /\ UNCHANGED enc

\* py_itot_mrg returns None, and no handle, when the call emitted no clause
TreeReturnedIfClauses(st) ==
    /\ ItotReturned(st)
    /\ handles' = IF st.cls # << >> THEN handles \cup {st.root} ELSE handles

\* py_itot_mrg: two distinct root handles; lhs records the second one
py_itot_mrg ==
    \E ta \in handles, tb \in handles, r \in ItotBounds :
       /\ ta # tb
       /\ IsRoot(ta)
       /\ IsRoot(tb)
       /\ Entered("itot_merge", << tb >>, r, ta)
       /\ TreeReturnedIfClauses(itot_merge(itot_enter(top, heap, log), ta, tb, r))
       /\ UNCHANGED enc

\* an encoder returned r in a session: the variables of its clauses that
\* are not the caller's are the ids it handed out
EncoderReturned(r) ==
    /\ dest' = r.cls
    /\ acc' = acc \o r.cls
    /\ top' = r.top
    /\ log' = log \o AuxVars(r.cls)
    /\ UNCHANGED <<trace, frame>>

\* the encoders called in a session: a network (zvar and the comparators'
\* "++top_id") and the modulo totalizer (its own totalizers and adders)
SessionTags == {enc_sortn, enc_mtot}

\* py_encode_atmost on all the input literals, in the general case
py_encode_atmost ==
    \E e \in SessionTags, r \in 2 .. (NLits - 2) :
       /\ Entered("atmost", InputLits(NLits), r, tree)
       /\ enc' = e
       /\ EncoderReturned(encode_atmost(InputLits(NLits), r, top, e))
       /\ UNCHANGED <<heap, handles>>

\* the nodes of the tree at id
RECURSIVE NodesUnder(_, _)
NodesUnder(hp, id) ==
    IF hp[id].left = 0 THEN {id}
    ELSE {id} \cup NodesUnder(hp, hp[id].left) \cup NodesUnder(hp, hp[id].right)

\* py_itot_del on a root handle; the caller drops the handles of the tree
py_itot_del ==
    \E t \in handles :
       /\ IsRoot(t)
       /\ Entered("itot_destroy", << >>, 0, t)
       /\ trace' = trace \o itot_destroy(heap, t)
       /\ handles' = handles \ NodesUnder(heap, t)
       /\ dest' = << >>
       /\ UNCHANGED <<enc, top, heap, acc, log, frame>>

SessionInit == Init \/ SessionStart

SessionNext ==
    \/ Next
    \/ py_itot_new
    \/ py_itot_inc
    \/ py_itot_ext
    \/ py_itot_mrg
    \/ py_itot_del
    \/ py_encode_atmost

Session == SessionInit /\ [][SessionNext]_vars

\* the sessions that call only the tree functions
TreeCalls ==
    \/ py_itot_new
    \/ py_itot_inc
    \/ py_itot_ext
    \/ py_itot_mrg

Trees == SessionStart /\ [][TreeCalls]_vars

(***************************************************************************)
(* The state machine of a merged tree: the caller has built two trees over *)
(* the literals 1 .. a and a + 1 .. RegrowLits, merged them, and still     *)
(* holds the three handles; it makes up to MaxIncreases calls of           *)
(* itot_increase on any of them.                                           *)
(***************************************************************************)
RegrowLits == 3

MaxIncreases == 2

\* the bounds of the builds and of the increases
RegrowBounds == -1 .. RegrowLits

\* the caller's state after itot_new (s1), itot_new (s2) and itot_merge (m)
MergedState(s1, s2, m, k) ==
    /\ pc = "session"
    /\ op = "itot_merge"
    /\ enc = enc_exp
    /\ lhs = << s2.root >>
    /\ rhs = k
    /\ tree = s1.root
    /\ top0 = s2.top
    /\ top = m.top
    /\ dest = SubSeq(m.cls, Len(s2.cls) + 1, Len(m.cls))
    /\ acc = m.cls
    /\ heap = m.heap
    /\ log = m.log
    /\ handles = {s1.root, s2.root, m.root}
    /\ calls = 3
    /\ trace = << >>
    /\ frame = << >>

\* the second tree is built on the state the first left, then the merge
MergedAfterSecond(s1, s2, k) ==
    MergedState(s1, s2, itot_merge(s2, s1.root, s2.root, k), k)

MergedAfterFirst(s1, a, rb, k) ==
    MergedAfterSecond(s1, itot_new(s1, [i \in 1 .. (RegrowLits - a) |-> a + i], rb), k)

RegrowInit ==
    \E a \in 1 .. (RegrowLits - 1), ra \in RegrowBounds, rb \in RegrowBounds,
       k \in 0 .. (RegrowLits - 1) :
       MergedAfterFirst(itot_new(itot_enter(NLits, << >>, << >>), InputLits(a), ra),
                        a, rb, k)

\* py_itot_inc on the root or on a sub-tree the caller still holds
py_itot_inc_held ==
    \E t \in handles, r \in RegrowBounds :
       /\ pc = "session"
       /\ calls < 3 + MaxIncreases
       /\ calls' = calls + 1
       /\ op' = "itot_increase"
       /\ lhs' = << >>
       /\ rhs' = r
       /\ tree' = t
       /\ top0' = top
       /\ ItotReturned(itot_increase(itot_enter(top, heap, log), t, r))
       /\ UNCHANGED <<pc, enc, handles>>

Regrow == RegrowInit /\ [][py_itot_inc_held]_vars

(***************************************************************************)
(* Functions of the library that no entry point reaches, run on their own. *)
(***************************************************************************)
\* seqcounter_encode_atmost1; g is the value of "vars[vars.size()]", the
\* element one past the end that the last clause is made of
seqcounter_encode_atmost1(t, vs, g) ==
    IF Len(vs) = 0 THEN [top |-> t, cls |-> << >>]
    ELSE [top |-> t + Len(vs),
          cls |-> << << -vs[1], t + 1 >> >>
                  \o ConcatAll([x \in 1 .. (Len(vs) - 1) |->
                        << << -vs[x + 1], -(t + x) >>,
                           << -vs[x + 1], t + x + 1 >>,
                           << -(t + x), t + x + 1 >> >>])
                  \o << << -g, -(t + Len(vs)) >> >>]

\* the indices of vars that seqcounter_encode_atmost1 reads, in order
seqcounter_reads(vs) ==
    IF Len(vs) = 0 THEN << >>
    ELSE [x \in 1 .. (Len(vs) + 1) |-> << "read", x - 1 >>]

\* the values a read past the end of a vector of ints may give
Indeterminate == -(MaxN + 2) .. (MaxN + 2)

\* the sequences of length at most n over the set S
RECURSIVE SeqsUpTo(_, _)
SeqsUpTo(S, n) ==
    IF n = 0 THEN {<< >>}
    ELSE SeqsUpTo(S, n - 1)
            \cup {Append(q, x) : q \in {w \in SeqsUpTo(S, n - 1) : Len(w) = n - 1}, x \in S}

\* cs without its clauses at the positions p .. p + k - 1
Without(cs, p, k) == SubSeq(cs, 1, p - 1) \o SubSeq(cs, p + k, Len(cs))

\* std::find(clauses.begin() + start, clauses.end(), cl): the first position
\* (from 1) after start that holds cl, Len + 1 (end) when there is none
FindFrom(cs, start, cl) ==
    IF \E x \in (start + 1) .. Len(cs) : cs[x] = cl
    THEN CHOOSE x \in (start + 1) .. Len(cs) :
            cs[x] = cl /\ \A y \in (start + 1) .. (x - 1) : cs[y] # cl
    ELSE Len(cs) + 1

\* what a call with undefined behaviour (an iterator past the end handed to
\* find or erase) may leave: a crash, or the store cut at any length
Undefined(cs) ==
    {[crashed |-> TRUE, clauses |-> cs]}
      \cup {[crashed |-> FALSE, clauses |-> SubSeq(cs, 1, x)] : x \in 0 .. Len(cs)}

\* ClauseSet::erase_subset(start, clset) on the store cs: the outcomes
erase_subset(cs, start, sub) ==
    IF Len(sub) = 0 THEN {[crashed |-> FALSE, clauses |-> cs]}
    ELSE IF start > Len(cs) THEN Undefined(cs)
    ELSE IF FindFrom(cs, start, sub[1]) + Len(sub) > Len(cs) + 1 THEN Undefined(cs)
    ELSE {[crashed |-> FALSE,
           clauses |-> Without(cs, FindFrom(cs, start, sub[1]), Len(sub))]}

\* the clauses the stores are made of
StoreClauses == {<< 1 >>, << -1, 2 >>}

MaxStore == 3

MaxSub == 2

UnitsInit ==
    /\ pc = "ready"
    /\ tree = 0
    /\ heap = << >>
    /\ handles = {}
    /\ acc = << >>
    /\ log = << >>
    /\ calls = 0
    /\ trace = << >>
    /\ \/ /\ op = "seqcounter_encode_atmost1"
          /\ enc = enc_seqc
          /\ rhs = 1
          /\ dest = << >>
          /\ frame = << >>
          /\ \E n \in 0 .. MaxN :
                /\ lhs = InputLits(n)
                /\ top = n
       \/ /\ op = "erase_subset"
          /\ enc = enc_exp
          /\ lhs = << >>
          /\ top = 2
          /\ dest \in SeqsUpTo(StoreClauses, MaxStore)
          /\ rhs \in 0 .. (Len(dest) + 1)
          /\ \E sub \in SeqsUpTo(StoreClauses, MaxSub) :
                frame = [clset |-> sub, start |-> rhs, clauses |-> dest]
    /\ top0 = top

Call_seqcounter_encode_atmost1 ==
    /\ pc = "ready"
    /\ op = "seqcounter_encode_atmost1"
    /\ \E g \in Indeterminate :
          Returned(seqcounter_encode_atmost1(top, lhs, g))
    /\ trace' = seqcounter_reads(lhs)
    /\ pc' = "done"
    /\ UNCHANGED <<op, enc, lhs, rhs, top0, tree, heap, handles, acc, log, calls, frame>>

\* the call ends with the outcome o
Erased(o) ==
    /\ dest' = o.clauses
    /\ pc' = IF o.crashed THEN "crashed" ELSE "done"

Call_erase_subset ==
    /\ pc = "ready"
    /\ op = "erase_subset"
    /\ \E o \in erase_subset(dest, frame.start, frame.clset) : Erased(o)
    /\ UNCHANGED <<op, enc, lhs, rhs, top, top0, svars>>

UnitsNext ==
    \/ Call_seqcounter_encode_atmost1
    \/ Call_erase_subset

Units == UnitsInit /\ [][UnitsNext]_vars

(***************************************************************************)
(* The work-stack loops of to_TO and mto_MTO_A, one iteration at a time.   *)
(* frame holds the loop: loop (counter, clauses, stack), iter (iterations  *)
(* done), split (size of the group popped last), pushed (sizes of the      *)
(* groups the last iteration pushed), call (the vectors of the last call   *)
(* of mto_MUA_A).                                                          *)
(***************************************************************************)
MaxLoopN == 10

\* "size_t p = (size_t)floor(sqrt((double)n)); if (p < 2) p = 2;" with n the
\* number of inputs (mto_encode_atmostN) or k (kmto_encode_atmostN)
LoopP == IF enc = enc_mtot THEN Max(2, FloorSqrt(Len(lhs))) ELSE Max(2, FloorSqrt(rhs))

\* the k handed to mto_MTO_A: the default -1, or k of kmto_encode_atmostN
LoopK == IF enc = enc_mtot THEN -1 ELSE rhs

\* the positions (from 0) of rs that mto_MUA_A reads, one too far in the
\* first loop
mto_MUA_A_rs_reads_shifted(m, n, p) ==
    {j : j \in 1 .. n}
        \cup {i - 1 : i \in 1 .. m}
        \cup {IF x[1] + x[2] < p THEN x[1] + x[2] - 1 ELSE ((x[1] + x[2]) % p) - 1 :
                 x \in {y \in (1 .. m) \X (1 .. n) : y[1] + y[2] # p}}

\* the positions (from 0) of rs that mto_MUA_A reads: rs[j - 1], rs[i - 1],
\* rs[i + j - 1] when i + j < p, rs[((i + j) % p) - 1] when i + j > p
mto_MUA_A_rs_reads(m, n, p) ==
    {j - 1 : j \in 1 .. n}
        \cup {i - 1 : i \in 1 .. m}
        \cup {IF x[1] + x[2] < p THEN x[1] + x[2] - 1 ELSE ((x[1] + x[2]) % p) - 1 :
                 x \in {y \in (1 .. m) \X (1 .. n) : y[1] + y[2] # p}}

\* the positions (from 0) of hs that mto_MUA_A reads: hs[0] when sigma # 0,
\* hs[j - 1] when j <= sigma, hs[j] when j < sigma, the same for i, and
\* hs[i + j - 1] when i + j <= sigma, hs[i + j] when i + j < sigma
mto_MUA_A_hs_reads(sigma, alfa, beta) ==
    (IF sigma = 0 THEN {} ELSE {0})
        \cup {j - 1 : j \in {y \in 1 .. beta : y <= sigma}}
        \cup {j : j \in {y \in 1 .. beta : y < sigma}}
        \cup {i - 1 : i \in {y \in 1 .. alfa : y <= sigma}}
        \cup {i : i \in {y \in 1 .. alfa : y < sigma}}
        \cup {x[1] + x[2] - 1 : x \in {y \in (1 .. alfa) \X (1 .. beta) : y[1] + y[2] <= sigma}}
        \cup {x[1] + x[2] : x \in {y \in (1 .. alfa) \X (1 .. beta) : y[1] + y[2] < sigma}}

\* the vectors mto_MTO_A hands to mto_MUA_A at the end of an iteration: f
\* and s are the states after the first and the second half
mto_MUA_A_args(f, s, back) ==
    [hs |-> back[2], rs |-> back[3], fs |-> f.u, as |-> f.l, gs |-> s.u, bs |-> s.l]

\* the same once the first half left the state f
mto_MTO_A_args_second(f, back, sndhalf, p, k) ==
    mto_MUA_A_args(f, mto_half(f, sndhalf, p, k), back)

\* the vectors of the call of mto_MUA_A in the iteration that pops back
mto_MTO_A_args(st, back, p, k) ==
    LET ni == Len(back[1])
        half == ni - (ni \div 2)
    IN  mto_MTO_A_args_second(
            mto_half([top |-> st.top, cls |-> st.cls,
                      stack |-> SubSeq(st.stack, 1, Len(st.stack) - 1)],
                     SubSeq(back[1], 1, half), p, k),
            back, SubSeq(back[1], half + 1, ni), p, k)

\* the sizes of the groups pushed by the iteration from st to st2: the
\* entries of st2's stack above those the iteration left in place
PushedSizes(st, st2) ==
    [i \in 1 .. (Len(st2.stack) - (Len(st.stack) - 1)) |->
        Len(st2.stack[Len(st.stack) - 1 + i][1])]

LoopsInit ==
    /\ pc = "entry"
    /\ dest = << >>
    /\ tree = 0
    /\ heap = << >>
    /\ handles = {}
    /\ acc = << >>
    /\ log = << >>
    /\ calls = 0
    /\ trace = << >>
    /\ frame = << >>
    /\ \/ /\ op = "to_TO"
          /\ enc = enc_tot
          /\ rhs = 0
          /\ \E n \in 0 .. MaxLoopN :
                /\ lhs = InputLits(n)
                /\ top = n
       \/ /\ op = "mto_MTO_A"
          /\ enc \in {enc_mtot, enc_kmtot}
          /\ \E n \in 2 .. MaxLoopN :
                /\ lhs = InputLits(n)
                /\ top = n
                /\ rhs \in 1 .. (n - 1)
    /\ top0 = top

\* the loop starts on the stack holding the bottom entry
LoopEntered(t, bottom) ==
    /\ frame' = [loop |-> [top |-> t, cls |-> << >>, stack |-> << bottom >>],
                 iter |-> 0, split |-> 0, pushed |-> << Len(bottom[1]) >>,
                 call |-> << >>]
    /\ pc' = "loop"
    /\ UNCHANGED <<top, dest>>

\* the function returned r without entering its loop
LoopSkipped(r) ==
    /\ Returned(r)
    /\ pc' = "done"
    /\ frame' = [loop |-> [top |-> r.top, cls |-> r.cls, stack |-> << >>],
                 iter |-> 0, split |-> 0, pushed |-> << >>, call |-> << >>]

\* to_TO up to its loop
Enter_to_TO ==
    /\ pc = "entry"
    /\ op = "to_TO"
    /\ IF Len(lhs) < 2
       THEN LoopSkipped([top |-> top, cls |-> << >>])
       ELSE LoopEntered(top + Len(lhs), << lhs, FreshVars(top, Len(lhs)) >>)
    /\ UNCHANGED <<op, enc, lhs, rhs, top0, tree, heap, handles, acc, log, calls, trace>>

\* mto_MTO_A up to its loop
Enter_mto_MTO_A ==
    /\ pc = "entry"
    /\ op = "mto_MTO_A"
    /\ IF Len(lhs) < LoopP
       THEN LoopSkipped(mto_MTO_A_direct(to_TO(top, lhs)))
       ELSE LoopEntered(top + mto_upper_size(Len(lhs), LoopP, LoopK) + (LoopP - 1),
                        << lhs,
                           FreshVars(top, mto_upper_size(Len(lhs), LoopP, LoopK)),
                           FreshVars(top + mto_upper_size(Len(lhs), LoopP, LoopK),
                                     LoopP - 1) >>)
    /\ UNCHANGED <<op, enc, lhs, rhs, top0, tree, heap, handles, acc, log, calls, trace>>

\* an iteration took the loop to st2 and called mto_MUA_A on call
LoopStepped(st2, call) ==
    /\ frame' = [loop |-> st2,
                 iter |-> frame.iter + 1,
                 split |-> Len(frame.loop.stack[Len(frame.loop.stack)][1]),
                 pushed |-> PushedSizes(frame.loop, st2),
                 call |-> call]
    /\ UNCHANGED <<op, enc, lhs, rhs, top, dest, pc, top0,
                   tree, heap, handles, acc, log, calls, trace>>

\* one iteration of to_TO's "while (!stack.empty())"
Iterate_to_TO ==
    /\ pc = "loop"
    /\ op = "to_TO"
    /\ frame.loop.stack # << >>
    /\ LoopStepped(to_TO_iter(frame.loop), << >>)

\* one iteration of mto_MTO_A's "while (!stack.empty())"
Iterate_mto_MTO_A ==
    /\ pc = "loop"
    /\ op = "mto_MTO_A"
    /\ frame.loop.stack # << >>
    /\ LoopStepped(mto_MTO_A_iter(frame.loop, LoopP, LoopK),
                   mto_MTO_A_args(frame.loop, frame.loop.stack[Len(frame.loop.stack)],
                                  LoopP, LoopK))

\* the loop test fails: the function returns
Leave_loop ==
    /\ pc = "loop"
    /\ frame.loop.stack = << >>
    /\ Returned(frame.loop)
    /\ pc' = "done"
    /\ UNCHANGED <<op, enc, lhs, rhs, top0, svars>>

LoopsNext ==
    \/ Enter_to_TO
    \/ Enter_mto_MTO_A
    \/ Iterate_to_TO
    \/ Iterate_mto_MTO_A
    \/ Leave_loop

Loops == LoopsInit /\ [][LoopsNext]_vars

\* mto_MTO_A can make an iteration; an iteration adds one to frame.iter, so
\* this is ENABLED <<Iterate_mto_MTO_A>>_vars
Iterate_mto_MTO_A_enabled ==
    pc = "loop" /\ op = "mto_MTO_A" /\ frame.loop.stack # << >>

\* the loops run: a function that can take a step takes it. The last
\* conjunct is WF_vars(Iterate_mto_MTO_A) with ENABLED written out.
LoopsFair ==
    /\ Loops
    /\ WF_vars(Enter_to_TO)
    /\ WF_vars(Enter_mto_MTO_A)
    /\ WF_vars(Iterate_to_TO)
    /\ WF_vars(Leave_loop)
    /\ ([]<>(~Iterate_mto_MTO_A_enabled) \/ []<><<Iterate_mto_MTO_A>>_vars)

(***************************************************************************)
(* Semantics of a ClauseSet: satisfiability over the auxiliary variables   *)
(* once the input variables are fixed.                                     *)
(***************************************************************************)
\* a clause as the set of its literals
ClauseLits(cl) == {cl[i] : i \in 1 .. Len(cl)}

CNF(cs) == {ClauseLits(cs[i]) : i \in 1 .. Len(cs)}

\* F with every literal of the consistent set T made true
Assign(F, T) ==
    LET neg == {-l : l \in T}
    IN  {c \ neg : c \in {d \in F : d \cap T = {}}}

\* DPLL: unit propagation, then the two one-sided assignments (all remaining
\* variables false / all true), then a split on a literal
RECURSIVE Sat(_)
Sat(F) ==
    IF F = {} THEN TRUE
    ELSE IF {} \in F THEN FALSE
    ELSE LET units == UNION {c \in F : Cardinality(c) = 1}
         IN  IF units # {}
             THEN IF \E l \in units : -l \in units THEN FALSE
                  ELSE Sat(Assign(F, units))
             ELSE IF \A c \in F : \E l \in c : l < 0 THEN TRUE
             ELSE IF \A c \in F : \E l \in c : l > 0 THEN TRUE
             ELSE LET l == CHOOSE x \in UNION F : TRUE
                  IN  Sat(Assign(F, {l})) \/ Sat(Assign(F, {-l}))

\* the input assignment that makes exactly the variables of A (a subset of
\* 1 .. n) true, as a set of true literals
InputAssignment(A, n) == A \cup {-v : v \in (1 .. n) \ A}

\* the clauses cs can be satisfied by some values of the other variables when
\* the input variables 1 .. n are fixed by A
Accepts(cs, n, A) == Sat(Assign(CNF(cs), InputAssignment(A, n)))

\* the subsets of 1 .. n accepted by cs
Accepted(cs, n) == {A \in SUBSET (1 .. n) : Accepts(cs, n, A)}

AtMost(n, k) == {A \in SUBSET (1 .. n) : Cardinality(A) <= k}

AtLeast(n, k) == {A \in SUBSET (1 .. n) : Cardinality(A) >= k}

InRange == Len(lhs) >= 1 /\ rhs >= 0 /\ rhs <= Len(lhs)

(***************************************************************************)
(* Properties                                                              *)
(***************************************************************************)
\* a finished _encode_atmost call with tag e and a bound in 0 .. n, n >= 1
AtMostDone(e) == pc = "done" /\ op = "atmost" /\ enc = e /\ InRange

\* the call went through the family's general case
GeneralCase == rhs > 0 /\ rhs < Len(lhs) - 1

\* C1: sequential counter, at most k: the emitted clauses are satisfiable over
\* the auxiliary variables exactly for the input assignments with at most rhs
\* true literals
C1_SeqCounterAtMostExact ==
    AtMostDone(enc_seqc) => Accepted(dest, Len(lhs)) = AtMost(Len(lhs), rhs)

\* n = 4, k = 2 through the general case: state variables were allocated, an
\* assignment with two true literals is accepted, one with three is rejected
C1_Witness ==
    /\ AtMostDone(enc_seqc) /\ Len(lhs) = 4 /\ rhs = 2 /\ top > 4
    /\ Accepts(dest, 4, {1, 3}) /\ ~Accepts(dest, 4, {1, 2, 4})

\* C2: totalizer, at most k: to_TO's tree plus the unit clause on root output
\* rhs accept exactly the input assignments with at most rhs true literals
C2_TotalizerAtMostExact ==
    AtMostDone(enc_tot) => Accepted(dest, Len(lhs)) = AtMost(Len(lhs), rhs)

C2_Witness ==
    /\ AtMostDone(enc_tot) /\ Len(lhs) = 5 /\ rhs = 3 /\ top > 5
    /\ Len(dest[Len(dest)]) = 1
    /\ Accepts(dest, 5, {1, 3, 5}) /\ ~Accepts(dest, 5, {1, 2, 4, 5})

\* C3: modulo totalizer, at most k: the emitted clauses accept exactly the
\* input assignments with at most rhs true literals
C3_ModuloTotalizerAtMostExact ==
    AtMostDone(enc_mtot) => Accepted(dest, Len(lhs)) = AtMost(Len(lhs), rhs)

\* a case with group size p = 3 (n = 10), bound 5 = 1 * 3 + 2
C3_Witness ==
    /\ AtMostDone(enc_mtot) /\ Len(lhs) = 10 /\ rhs = 5 /\ top > 10
    /\ Accepts(dest, 10, {1, 3, 5, 7, 9}) /\ ~Accepts(dest, 10, {1, 2, 4, 6, 8, 10})

\* C4: k-approximate modulo totalizer, at most k: capping the upper vectors
\* neither rejects an assignment with at most rhs true literals nor accepts
\* one with more
C4_KModuloTotalizerAtMostExact ==
    AtMostDone(enc_kmtot) => Accepted(dest, Len(lhs)) = AtMost(Len(lhs), rhs)

\* a case with group size p = 3 (k = 9, n = 12), upper vectors capped at 3
C4_Witness ==
    /\ AtMostDone(enc_kmtot) /\ Len(lhs) = 12 /\ rhs = 9 /\ top > 12
    /\ Accepts(dest, 12, 1 .. 9) /\ ~Accepts(dest, 12, 2 .. 11)

\* C5: sorting network, at most k, for n a power of two or not: the emitted
\* clauses accept exactly the input assignments with at most rhs true literals
C5_SortingNetworkAtMostExact ==
    AtMostDone(enc_sortn) => Accepted(dest, Len(lhs)) = AtMost(Len(lhs), rhs)

\* n = 6 is padded to 8 by a zero variable forced false by the first clause
C5_Witness ==
    /\ AtMostDone(enc_sortn) /\ Len(lhs) = 6 /\ rhs = 3 /\ top > 6
    /\ dest[1] = << -7 >>
    /\ Accepts(dest, 6, {2, 4, 6}) /\ ~Accepts(dest, 6, {1, 2, 5, 6})

\* C6: cardinality network, at most k: the emitted clauses accept exactly the
\* input assignments with at most rhs true literals
C6_CardinalityNetworkAtMostExact ==
    AtMostDone(enc_cardn) => Accepted(dest, Len(lhs)) = AtMost(Len(lhs), rhs)

\* n = 7, k = 1: blocks of nkval = 2, four blocks after padding, three merges
C6_Witness ==
    /\ AtMostDone(enc_cardn) /\ Len(lhs) = 7 /\ rhs = 1 /\ top > 7
    /\ dest[1] = << -8 >>
    /\ Accepts(dest, 7, {6}) /\ ~Accepts(dest, 7, {1, 7})

GeneralTags == {enc_seqc, enc_sortn, enc_cardn, enc_tot, enc_mtot, enc_kmtot}

\* C7: _encode_atleast with one of the six general tags: the emitted clauses
\* accept exactly the input assignments with at least rhs true literals
C7_AtLeastExact ==
    (pc = "done" /\ op = "atleast" /\ enc \in GeneralTags /\ InRange)
        => Accepted(dest, Len(lhs)) = AtLeast(Len(lhs), rhs)

\* at least 3 of 5 by the totalizer: the vector was negated, the bound became 2
C7_Witness ==
    /\ pc = "done" /\ op = "atleast" /\ enc = enc_tot /\ Len(lhs) = 5 /\ rhs = 3
    /\ lhs = << -1, -2, -3, -4, -5 >> /\ top > 5
    /\ Accepts(dest, 5, {1, 2, 5}) /\ ~Accepts(dest, 5, {2, 4})

AtMost1Tags == {enc_exp, enc_bitw, enc_ladd}

\* the selector-bit literals the bitwise clauses pair with the literal at
\* position i
BitCode(i) == {dest[c][2] : c \in {d \in 1 .. Len(dest) : dest[d][1] = -lhs[i]}}

\* C8: bound 1 and n >= 3 with the pairwise, bitwise or ladder tag: the
\* emitted clauses accept exactly the input assignments with at most one true
\* literal, and the bitwise codes of different positions differ
C8_AtMost1Exact ==
    (pc = "done" /\ op = "atmost" /\ enc \in AtMost1Tags /\ rhs = 1 /\ Len(lhs) >= 3)
        => /\ Accepted(dest, Len(lhs)) = AtMost(Len(lhs), 1)
           /\ enc = enc_bitw =>
                 \A i, j \in 1 .. Len(lhs) : i # j => BitCode(i) # BitCode(j)

\* bitwise on 5 literals: three selector bits, the empty assignment and a
\* single true literal accepted, a pair rejected
C8_Witness ==
    /\ pc = "done" /\ op = "atmost" /\ enc = enc_bitw /\ rhs = 1 /\ Len(lhs) = 5
    /\ top = 8 /\ Cardinality(BitCode(5)) = 3
    /\ Accepts(dest, 5, {}) /\ Accepts(dest, 5, {4}) /\ ~Accepts(dest, 5, {1, 5})

Singletons(n) == {{v} : v \in 1 .. n}

\* C9: ladder_encode_equals1 on n >= 1 literals: the emitted clauses accept
\* exactly the n input assignments with exactly one true literal
C9_LadderEquals1Exact ==
    (pc = "done" /\ op = "ladder_equals1")
        => Accepted(dest, Len(lhs)) = Singletons(Len(lhs))

\* literals [1,2,3,4]: three ladder variables, the four singletons accepted
C9_Witness ==
    /\ pc = "done" /\ op = "ladder_equals1" /\ lhs = << 1, 2, 3, 4 >> /\ top = 7
    /\ Accepted(dest, 4) = {{1}, {2}, {3}, {4}}

\* C10 as stated: pairwise, bitwise and ladder, every n >= 1 and every bound in
\* 0 .. n: the emitted clauses accept exactly the input assignments with at
\* most rhs true literals
C10_AtMost1TagsEveryBound ==
    (pc = "done" /\ op = "atmost" /\ enc \in AtMost1Tags /\ InRange)
        => Accepted(dest, Len(lhs)) = AtMost(Len(lhs), rhs)

\* C10 as amended: the same for the bounds these tags encode, rhs <= 1 or
\* rhs >= n - 1
C10_AtMost1TagsSupportedBounds ==
    (pc = "done" /\ op = "atmost" /\ enc \in AtMost1Tags /\ InRange
       /\ (rhs <= 1 \/ rhs >= Len(lhs) - 1))
        => Accepted(dest, Len(lhs)) = AtMost(Len(lhs), rhs)

\* ladder with bound 1 on 4 literals: slack and ladder variables allocated
C10_Witness ==
    /\ pc = "done" /\ op = "atmost" /\ enc = enc_ladd /\ rhs = 1 /\ Len(lhs) = 4
    /\ top = 9
    /\ Accepts(dest, 4, {}) /\ Accepts(dest, 4, {3}) /\ ~Accepts(dest, 4, {2, 3})

\* C11: pairwise, bitwise or ladder tag with a bound in the general range
\* 1 < rhs < n - 1: _encode_atmost emits no clause, leaves the counter and
\* the literal vector as they were, and what the caller gets back is what
\* the call with the trivial bound n gives: nothing tells the two apart
C11_UnsupportedBoundSilentNoOp ==
    (pc = "done" /\ op = "atmost" /\ enc \in AtMost1Tags
       /\ rhs > 1 /\ rhs < Len(lhs) - 1)
        => /\ dest = << >>
           /\ top = top0
           /\ lhs = InputLits(Len(lhs))
           /\ [top |-> top, cls |-> dest] = encode_atmost(lhs, Len(lhs), top0, enc)

\* pairwise, at most 2 of 5: nothing emitted, so all five true is accepted
C11_Witness ==
    /\ pc = "done" /\ op = "atmost" /\ enc = enc_exp /\ Len(lhs) = 5 /\ rhs = 2
    /\ dest = << >> /\ top = 5
    /\ Accepts(dest, 5, {1, 2, 3, 4, 5})

\* C12: with one of the six general tags, for every n >= 0 and every integer
\* bound, bounds outside 0 .. n included, the emitted clauses accept exactly
\* the input assignments that meet the constraint: none of them for
\* _encode_atmost with rhs < 0 and for _encode_atleast with rhs > n
C12_EveryBoundEquisatisfiable ==
    /\ (pc = "done" /\ op = "atmost" /\ enc \in GeneralTags)
          => Accepted(dest, Len(lhs)) = AtMost(Len(lhs), rhs)
    /\ (pc = "done" /\ op = "atleast" /\ enc \in GeneralTags)
          => Accepted(dest, Len(lhs)) = AtLeast(Len(lhs), rhs)

\* C13: for every n >= 0, every integer bound and every tag, the clauses of
\* _encode_atleast(L, rhs) accept the same input assignments as the clauses
\* of _encode_atmost(negated L, n - rhs), the counter being the same at both
\* calls
C13_AtLeastDualOfAtMost ==
    (pc = "done" /\ op = "atleast")
        => Accepted(dest, Len(lhs))
             = Accepted(encode_atmost(Negated(InputLits(Len(lhs))),
                                      Len(lhs) - rhs, top0, enc).cls, Len(lhs))

\* C14: for every tag and every n >= 0, _encode_atmost emits no clause when
\* rhs >= n, the n unit clauses -lits[i] when rhs = 0 < n, and the one
\* clause of the n negated literals when rhs = n - 1; the counter is left
\* as it was in the three cases
C14_ShortcutsExact ==
    (pc = "done" /\ op = "atmost")
        => /\ rhs >= Len(lhs) => (dest = << >> /\ top = top0)
           /\ (rhs = 0 /\ 0 < Len(lhs))
                 => (dest = [i \in 1 .. Len(lhs) |-> << -lhs[i] >>] /\ top = top0)
           /\ rhs = Len(lhs) - 1
                 => (dest = << [i \in 1 .. Len(lhs) |-> -lhs[i]] >> /\ top = top0)

\* C18: _encode_atleast changes the caller's literal vector only in its
\* general case: with 1 < rhs and rhs # n every lhs[i] comes back negated,
\* with rhs <= 0, rhs = 1 or rhs = n the vector comes back as it was; and
\* _encode_atmost leaves the vector alone for every tag and bound
C18_LiteralVectorFrame ==
    /\ (pc = "done" /\ op = "atleast" /\ rhs > 1 /\ rhs # Len(lhs))
          => lhs = [i \in 1 .. Len(lhs) |-> -i]
    /\ (pc = "done" /\ op = "atleast" /\ (rhs <= 0 \/ rhs = 1 \/ rhs = Len(lhs)))
          => lhs = InputLits(Len(lhs))
    /\ (pc = "done" /\ op = "atmost") => lhs = InputLits(Len(lhs))

\* at least 2 of 4 by the sorting network: the four literals came back negated
C18_Witness ==
    /\ pc = "done" /\ op = "atleast" /\ enc = enc_sortn /\ rhs = 2
    /\ lhs = << -1, -2, -3, -4 >> /\ dest # << >>

(***************************************************************************)
(* Claims on the counter and on the clauses of any call, checked on        *)
(* Session: the single calls of Spec and the calls of a session.           *)
(***************************************************************************)
\* a call has returned: dest holds its clauses, top0 the counter it was passed
CallReturned == pc = "done" \/ (pc = "session" /\ calls > 0)

\* the caller's variables
InputVars == 1 .. (IF pc = "session" THEN NLits ELSE Len(lhs))

\* the auxiliary variables of the clauses of the last call
DestAuxVars == VarsOf(dest) \ InputVars

\* C15 as stated: after any single call the returned top is at least the top
\* passed in and strictly greater than every auxiliary variable of the
\* clauses the call produced.
C15_TopStrictlyAboveAuxiliaries ==
    CallReturned => /\ top >= top0
                    /\ \A v \in DestAuxVars : top > v

\* C15 amended: after any single call the returned top is at least the top
\* passed in and at least every auxiliary variable of the clauses the call
\* produced (top is the highest id in use, not the next free one).
C15_TopBoundsAuxiliaries ==
    CallReturned => /\ top >= top0
                    /\ \A v \in DestAuxVars : top >= v

\* a merge that allocated: its last fresh variable, the returned top, is in
\* its clauses
C15_Witness ==
    /\ pc = "session"
    /\ op = "itot_merge"
    /\ top > top0
    /\ top \in DestAuxVars

\* C16: across the calls that share one counter, the counter never decreases
\* and a call hands out exactly the ids top + 1, ..., top' in this order, each
\* the counter right after its increment: for the incremental totalizer the
\* ids logged at "++top", for an encoder the auxiliary variables of its
\* clauses; so every id from the initial top + 1 to the final top is handed out
\* exactly once.
C16_SharedCounter ==
    /\ [][/\ top' >= top
          /\ pc' = "session" => log' = log \o FreshVars(top, top' - top)
          /\ pc' = "done" => DestAuxVars' = (top + 1) .. top']_vars
    /\ [](pc = "session" => log = FreshVars(NLits, top - NLits))

\* an encoder call that allocated, after incremental-totalizer calls that
\* allocated on the same counter
C16_Witness ==
    /\ pc = "session"
    /\ calls = MaxCalls
    /\ op = "atmost"
    /\ heap # << >>
    /\ top > top0
    /\ top0 > NLits

\* C17: the caller's literals being non-zero and the counter passed being at
\* least the largest input variable (so it is in every call of Spec and of a
\* session), no clause of any call, of an encoder family or of the
\* incremental totalizer, contains the literal 0.
C17_NoZeroLiteral ==
    \A i \in 1 .. Len(dest) : \A j \in 1 .. Len(dest[i]) : dest[i][j] # 0

\* a sorting network on five literals, padded to eight with zvar = top0 + 1,
\* has returned its clauses
C17_Witness ==
    /\ pc = "done"
    /\ op = "atmost"
    /\ enc = enc_sortn
    /\ Len(lhs) = 5
    /\ rhs = 2
    /\ Len(dest) > 1
    /\ dest[1] = << -(top0 + 1) >>

(***************************************************************************)
(* Claims on the incremental totalizer, checked on Session.                *)
(***************************************************************************)
\* C19: a call itot_increase(tree, rhs) on a tree of a session with
\* min(rhs + 1, nof_input) not larger than the length of the tree's count
\* vector emits no clause, leaves top unchanged and changes no node of the
\* heap, hence no count vector of the node or of a descendant.
C19_IncreaseWithinCapacityNoOp ==
    [][(/\ op' = "itot_increase"
        /\ calls' = calls + 1
        /\ itot_kmin(rhs', heap[tree'].nof_input) <= Len(heap[tree'].vars))
       => (/\ dest' = << >>
           /\ top' = top
           /\ heap' = heap)]_vars

\* an increase to a bound below the capacity of an inner node has returned
C19_Witness ==
    /\ pc = "session"
    /\ op = "itot_increase"
    /\ heap[tree].left # 0
    /\ rhs >= 0
    /\ itot_kmin(rhs, heap[tree].nof_input) < Len(heap[tree].vars)
    /\ dest = << >>
    /\ top = top0

\* the clauses cs with the unit clause that makes the count variable at
\* index k (from 0) of the vector vs false
BoundedAt(cs, vs, k) == cs \o << << -vs[k + 1] >> >>

\* the clauses and the root's vector of a tree just built, bounded at k
BuiltBoundedAt(st, k) == BoundedAt(st.cls, st.heap[st.root].vars, k)

\* the one root among the caller's handles after a merge of all its trees
MergedRoot == CHOOSE h \in handles : IsRoot(h)

\* two calls of itot_new over disjoint literals, then itot_merge of the two
\* trees with a bound below the number of literals
MergedTwoNew ==
    /\ pc = "session"
    /\ op = "itot_merge"
    /\ calls = 3
    /\ rhs >= 0
    /\ rhs < NofLeaves

\* C20: for two trees built by itot_new over disjoint literals A and B with
\* any bounds and k < |A| + |B|, all the clauses emitted so far, those of
\* itot_merge(ta, tb, k) included, with the unit clause on the merged root's
\* count variable k accept the same input assignments as itot_new over the
\* union with bound k and the same unit clause: those with at most k true.
C20_MergeEquivalentToDirect ==
    MergedTwoNew =>
       /\ Accepted(BoundedAt(acc, heap[MergedRoot].vars, rhs), NofLeaves)
             = AtMost(NofLeaves, rhs)
       /\ Accepted(BuiltBoundedAt(itot_new(itot_enter(NLits, << >>, << >>),
                                           InputLits(NofLeaves), rhs), rhs),
                   NofLeaves)
             = AtMost(NofLeaves, rhs)

\* a merge at bound 2 of a tree over two literals built with bound 0 and a
\* tree over two literals built with bound 3: the first tree had to grow
C20_Witness ==
    /\ MergedTwoNew
    /\ NofLeaves = 4
    /\ rhs = 2
    /\ heap[heap[MergedRoot].left].nof_input = 2
    /\ Len(heap[heap[MergedRoot].left].vars) = 2
    /\ heap[heap[MergedRoot].left].vars[2] > heap[heap[MergedRoot].right].vars[1]

\* the literals at the leaves under node id of the heap hp
RECURSIVE LeavesUnder(_, _)
LeavesUnder(hp, id) ==
    IF hp[id].left = 0 THEN {hp[id].vars[1]}
    ELSE LeavesUnder(hp, hp[id].left) \cup LeavesUnder(hp, hp[id].right)

\* the inner nodes of the heap
InnerNodes == {id \in DOMAIN heap : heap[id].left # 0}

\* the clauses acc have a model that extends the input assignment A with
\* the literal l
ModelWith(A, l) == Sat(Assign(CNF(acc), InputAssignment(A, NLits) \cup {l}))

\* under the input assignment A the clauses emitted so far force count
\* variable i (from 1) of node id true when at least i leaves are true
CountForcedUp(id, i, A) ==
    Cardinality(A \cap LeavesUnder(heap, id)) >= i
       => ~ModelWith(A, -heap[id].vars[i])

\* and false when fewer than i leaves are true
CountForcedDown(id, i, A) ==
    Cardinality(A \cap LeavesUnder(heap, id)) < i
       => ~ModelWith(A, heap[id].vars[i])

\* C21 as stated: in every model of the clauses emitted for a tree, for every
\* node and every position i of its count vector, the i-th count variable is
\* true if and only if at least i of the leaves under the node are true.
C21_CountVariableIff ==
    pc = "session" =>
       \A id \in InnerNodes : \A i \in 1 .. Len(heap[id].vars) :
          \A A \in SUBSET (1 .. NLits) :
             CountForcedUp(id, i, A) /\ CountForcedDown(id, i, A)

\* the literals unit propagation derives from the clauses F, added to T;
\* {0} when it derives a conflict
RECURSIVE UnitClosure(_, _)
UnitClosure(F, T) ==
    IF {} \in F THEN {0}
    ELSE LET units == UNION {c \in F : Cardinality(c) = 1}
         IN  IF units = {} THEN T
             ELSE IF \E l \in units : -l \in units THEN {0}
             ELSE UnitClosure(Assign(F, units), T \cup units)

\* the same on F, the clauses emitted so far with the inputs fixed by A, for
\* every count variable of every inner node; U is what unit propagation
\* derives from F: a variable it derives is true in every model of F
ForcedUpUnder(F, U, A) ==
    \A id \in InnerNodes : \A i \in 1 .. Len(heap[id].vars) :
       Cardinality(A \cap LeavesUnder(heap, id)) >= i
          => \/ heap[id].vars[i] \in U
             \/ ~Sat(Assign(F, {-heap[id].vars[i]}))

ForcedUpIn(F, A) == ForcedUpUnder(F, UnitClosure(F, {}), A)

\* and under every input assignment, cnf being the clauses emitted so far
AllForcedUp(cnf) ==
    \A A \in SUBSET (1 .. NLits) :
       ForcedUpIn(Assign(cnf, InputAssignment(A, NLits)), A)

\* C21 amended: in every model of the clauses emitted for the trees, for
\* every node and every position i of its count vector, the i-th count
\* variable is true if at least i of the leaves under the node are true (the
\* clauses say nothing when fewer are true).
C21_CountVariableIf ==
    pc = "session" => AllForcedUp(CNF(acc))

\* a tree over all the literals with full count vectors, grown by an
\* increase: its root counts up to NLits
C21_Witness ==
    /\ pc = "session"
    /\ op = "itot_increase"
    /\ top > top0
    /\ heap[tree].nof_input = NLits
    /\ Len(heap[tree].vars) = NLits

\* the positions of the trace at which node id is released
DeleteAt(id) == {k \in DOMAIN trace : trace[k] = << "delete", id >>}

\* C22: itot_destroy(root), after any calls that built the tree on distinct
\* live handles, releases every node of the tree exactly once, both children
\* of a node before the node, and no node is read or released at any time
\* after its release.
C22_DestroyReleasesTreeOnce ==
    pc = "session" =>
       /\ \A k \in DOMAIN trace : \A m \in DOMAIN trace :
             (trace[k][1] = "delete" /\ m > k) => trace[m][2] # trace[k][2]
       /\ op = "itot_destroy" =>
             \A id \in NodesUnder(heap, tree) :
                /\ Cardinality(DeleteAt(id)) = 1
                /\ heap[id].left # 0 =>
                      \A k \in DeleteAt(id) :
                         \A c \in DeleteAt(heap[id].left) \cup DeleteAt(heap[id].right) :
                            c < k

\* the destruction of a tree that a merge or an extension put together
C22_Witness ==
    /\ pc = "session"
    /\ op = "itot_destroy"
    /\ calls = 3
    /\ heap[tree].nof_input >= 3
    /\ Len(trace) = 4 * Cardinality(NodesUnder(heap, tree))

\* the number of nodes on the heap before the last itot_new, which made a
\* leaf per literal and one inner node less
NewBase == Len(heap) - (2 * Len(lhs) - 1)

\* the count vectors of the inner nodes b + n + 1 .. b + n + m, in this order
RECURSIVE InnerVars(_, _, _)
InnerVars(b, n, m) ==
    IF m = 0 THEN << >> ELSE InnerVars(b, n, m - 1) \o heap[b + n + m].vars

\* C23: itot_new on n >= 1 literals with a bound rhs >= 0 returns a root with
\* nof_input = n; leaf i has nof_input = 1 and the one count variable lhs[i];
\* an inner node has the sum of its children's nof_input and exactly
\* min(rhs + 1, nof_input) fresh variables; the j-th inner node joins the two
\* oldest nodes of the queue, which are the nodes 2j - 1 and 2j of the call
\* in the order of their creation.
C23_NewTreeShape ==
    (pc = "session" /\ op = "itot_new" /\ rhs >= 0) =>
       /\ Len(heap) \in handles
       /\ heap[Len(heap)].nof_input = Len(lhs)
       /\ \A i \in 1 .. Len(lhs) :
             heap[NewBase + i] =
                [vars |-> << lhs[i] >>, nof_input |-> 1, left |-> 0, right |-> 0]
       /\ \A j \in 1 .. (Len(lhs) - 1) :
             /\ heap[NewBase + Len(lhs) + j].left = NewBase + 2 * j - 1
             /\ heap[NewBase + Len(lhs) + j].right = NewBase + 2 * j
             /\ heap[NewBase + Len(lhs) + j].nof_input =
                   heap[NewBase + 2 * j - 1].nof_input + heap[NewBase + 2 * j].nof_input
             /\ Len(heap[NewBase + Len(lhs) + j].vars) =
                   Min(rhs + 1, heap[NewBase + Len(lhs) + j].nof_input)
       /\ InnerVars(NewBase, Len(lhs), Len(lhs) - 1) = FreshVars(top0, top - top0)

\* a tree over three literals with bound 1, built when the heap already held
\* a tree
C23_Witness ==
    /\ pc = "session"
    /\ op = "itot_new"
    /\ Len(lhs) = 3
    /\ rhs = 1
    /\ NewBase > 0
    /\ Len(heap[Len(heap)].vars) = 2

\* the count vector of a child of node id is long enough for every adder
\* clause of the node
ChildCovers(id, c) ==
    Len(heap[c].vars) >= Min(Len(heap[id].vars), heap[c].nof_input)

\* C24: after any sequence of itot_new, itot_increase, itot_merge and
\* itot_extend calls with arbitrary bounds, every inner node has
\* 1 <= |vars| <= nof_input and each child's count vector has at least
\* min(|vars|, child nof_input) entries.
C24_VectorLengths ==
    pc = "session" =>
       \A id \in InnerNodes :
          /\ 1 <= Len(heap[id].vars)
          /\ Len(heap[id].vars) <= heap[id].nof_input
          /\ ChildCovers(id, heap[id].left)
          /\ ChildCovers(id, heap[id].right)

\* the pairs (count variable of hp, count variable of dhp) at the same node
\* and position, over the inner nodes of two heaps of one shape
SamePlace(hp, dhp) ==
    UNION {{<< hp[id].vars[i], dhp[id].vars[i] >> : i \in 1 .. Len(hp[id].vars)}
              : id \in {x \in DOMAIN hp : hp[x].left # 0}}

\* the literal l with its variable renamed by the pairs P, an input literal
\* kept
Renamed(l, P) ==
    IF \E q \in P : q[1] = (IF l < 0 THEN -l ELSE l)
    THEN (IF l < 0 THEN -1 ELSE 1)
            * (CHOOSE q \in P : q[1] = (IF l < 0 THEN -l ELSE l))[2]
    ELSE l

\* the clauses cs as sets of literals, renamed by P
RenamedCNF(cs, P) == {{Renamed(l, P) : l \in c} : c \in CNF(cs)}

\* the pairs P rename one-to-one
OneToOne(P) == \A q \in P : \A w \in P : (q[1] = w[1]) <=> (q[2] = w[2])

\* the clauses of the tree of hp are, renamed place by place, those of the
\* tree st just built
SameUpToRenaming(cs, hp, st) ==
    /\ \A id \in DOMAIN hp : Len(hp[id].vars) = Len(st.heap[id].vars)
    /\ OneToOne(SamePlace(hp, st.heap))
    /\ RenamedCNF(cs, SamePlace(hp, st.heap)) = CNF(st.cls)
    /\ Len(cs) = Len(st.cls)

\* C25: when a tree built by itot_new with bound r1 is raised by
\* itot_increase to r2 > r1, the increase emits no clause emitted before,
\* every count variable keeps its id and position, and all the clauses
\* emitted are, up to a renaming of the auxiliary variables, the clauses of
\* itot_new called with bound r2 on the same literals.
C25_IncreaseRefinesNew ==
    [][(/\ pc = "session"
        /\ calls = 1
        /\ op = "itot_new"
        /\ op' = "itot_increase"
        /\ rhs >= 0
        /\ rhs' > rhs)
       => (/\ \A i \in 1 .. Len(dest') : \A k \in 1 .. Len(acc) : dest'[i] # acc[k]
           /\ \A id \in DOMAIN heap :
                 SubSeq(heap'[id].vars, 1, Len(heap[id].vars)) = heap[id].vars
           /\ SameUpToRenaming(acc', heap',
                               itot_new(itot_enter(NLits, << >>, << >>), lhs, rhs')))]_vars

\* a tree over all the literals built with bound 0 and raised to bound 2:
\* every inner node with more than one input grew
C25_Witness ==
    /\ pc = "session"
    /\ calls = 2
    /\ op = "itot_increase"
    /\ rhs = 2
    /\ heap[tree].nof_input = NLits
    /\ Len(heap[tree].vars) = 3
    /\ heap[tree].vars[1] < heap[heap[tree].left].vars[2]

\* the root of the merged tree: the handle that is no node's child
RegrownRoot == CHOOSE h \in handles : IsRoot(h)

\* C26: after any increases, in any order and with any bounds, of the root
\* of a merged tree and of the sub-trees merged into it, for every node and
\* every allocated index i (from 0) every input assignment with at least
\* i + 1 true leaves under the node forces vars[i] true; so with the negation
\* of the root's vars[k] every assignment with more than k true literals is
\* rejected.
C26_RegrownTreeSound ==
    /\ \A id \in InnerNodes : \A i \in 1 .. Len(heap[id].vars) :
          \A A \in SUBSET (1 .. RegrowLits) : CountForcedUp(id, i, A)
    /\ \A k \in 0 .. (Len(heap[RegrownRoot].vars) - 1) :
          Accepted(BoundedAt(acc, heap[RegrownRoot].vars, k), RegrowLits)
             \subseteq AtMost(RegrowLits, k)

\* the sub-tree over two literals was raised beyond the root's needs, then
\* the root was raised to count all the literals
C26_Witness ==
    /\ calls = 3 + MaxIncreases
    /\ tree = RegrownRoot
    /\ top > top0
    /\ Len(heap[tree].vars) = RegrowLits
    /\ \E c \in {heap[tree].left, heap[tree].right} :
          /\ Len(heap[c].vars) = 2
          /\ heap[c].vars[2] < heap[tree].vars[2]
          /\ heap[c].vars[2] > heap[tree].vars[1]

(***************************************************************************)
(* Claims on functions run on their own, checked on Units.                 *)
(***************************************************************************)
\* C27: seqcounter_encode_atmost1 on n >= 1 literals reads only the n
\* supplied literals, its clauses mention only those literals and the carry
\* variables it allocates, and they are satisfiable over the carries exactly
\* for the input assignments with at most one true literal.
C27_SeqCounterAtMost1 ==
    (pc = "done" /\ op = "seqcounter_encode_atmost1" /\ Len(lhs) >= 1) =>
       /\ \A x \in DOMAIN trace : trace[x][2] \in 0 .. (Len(lhs) - 1)
       /\ VarsOf(dest) \subseteq (1 .. Len(lhs)) \cup ((top0 + 1) .. top)
       /\ Accepted(dest, Len(lhs)) = AtMost(Len(lhs), 1)

\* the positions at or after start (from 0) where a run of the store cs
\* equals sub clause by clause
RunsOf(cs, start, sub) ==
    {x \in (start + 1) .. (Len(cs) - Len(sub) + 1) :
        SubSeq(cs, x, x + Len(sub) - 1) = sub}

\* C28: erase_subset(start, S) removes from the store exactly one run of |S|
\* clauses that equals S clause by clause and lies at or after start, keeps
\* the other clauses in their order, and leaves the store unchanged when S
\* is empty or does not occur.
C28_EraseSubsetExact ==
    (op = "erase_subset" /\ pc # "ready") =>
       /\ pc = "done"
       /\ IF frame.clset = << >> \/ RunsOf(frame.clauses, frame.start, frame.clset) = {}
          THEN dest = frame.clauses
          ELSE \E x \in RunsOf(frame.clauses, frame.start, frame.clset) :
                  dest = Without(frame.clauses, x, Len(frame.clset))

\* the loop was entered (pc = "loop") or left (pc = "done")
LoopRunning == pc \in {"loop", "done"}

\* the least size of a group the loop of op pushes
LeastPushed == IF op = "to_TO" THEN 2 ELSE LoopP

\* what holds after every iteration of either loop
LoopProgress ==
    LoopRunning =>
        /\ \A i \in 1 .. Len(frame.pushed) : frame.pushed[i] >= LeastPushed
        /\ frame.iter > 0 =>
               \A i \in 1 .. Len(frame.pushed) : frame.pushed[i] < frame.split
        /\ frame.iter <= Max(Len(lhs) - 1, 0)
        /\ pc = "done" => frame.loop.stack = << >>

\* C29: the work-stack loops of to_TO and mto_MTO_A terminate for every
\* input size: every group pushed is strictly smaller than the group it was
\* split from, to_TO pushes only groups of at least 2 inputs and mto_MTO_A
\* only groups of at least p, at most n - 1 iterations are made, and the
\* function returns with an empty stack
C29_LoopsTerminate == [](LoopProgress) /\ <>(pc = "done")

\* mto_MTO_A returned after n - 1 iterations, the last of which split a
\* group without pushing
C29_Witness ==
    /\ pc = "done"
    /\ op = "mto_MTO_A"
    /\ Len(lhs) >= 4
    /\ frame.iter = Len(lhs) - 1
    /\ frame.pushed = << >>

\* C30: at every call of mto_MUA_A made by mto_MTO_A (exact and
\* k-approximate, n >= 2 and 0 < k < n) the output lower vector has exactly
\* p - 1 entries, both input lower vectors have at most p - 1, and every
\* position read in the output upper and lower vectors is within them
C30_MUAIndicesInBounds ==
    (LoopRunning /\ op = "mto_MTO_A" /\ frame.iter > 0) =>
        /\ Len(frame.call.rs) = LoopP - 1
        /\ Len(frame.call.as) <= LoopP - 1
        /\ Len(frame.call.bs) <= LoopP - 1
        /\ \A x \in mto_MUA_A_rs_reads(Len(frame.call.as), Len(frame.call.bs), LoopP) :
               x >= 0 /\ x < Len(frame.call.rs)
        /\ \A x \in mto_MUA_A_hs_reads(Len(frame.call.hs), Len(frame.call.fs),
                                        Len(frame.call.gs)) :
               x >= 0 /\ x < Len(frame.call.hs)

\* a call of the k-approximate variant with p = 3 whose two inputs both
\* have full lower vectors and non-empty upper vectors
C30_Witness ==
    /\ LoopRunning
    /\ op = "mto_MTO_A"
    /\ enc = enc_kmtot
    /\ frame.iter > 0
    /\ LoopP = 3
    /\ Len(frame.call.as) = 2
    /\ Len(frame.call.bs) = 2
    /\ Len(frame.call.hs) >= 1
    /\ Len(frame.call.fs) >= 1
    /\ Len(frame.call.gs) >= 1

====
